---- MODULE Spec2Model ----
(***************************************************************************)
(* Model of the evote-backend vote pipeline: token issuance                *)
(* (voteController.issueToken), transactional vote submission              *)
(* (voteController.submitVote run through mongo.withTransaction), the      *)
(* election gate (voteService.isElectionOpen) and the admin election       *)
(* switches (adminController.openElection / closeElection /                *)
(* finalizeElection).                                                      *)
(*                                                                         *)
(* Store semantics: every collection holds committed documents only.  A    *)
(* submitVote transaction reads from the snapshot taken at its first read, *)
(* buffers its writes, and gets a write conflict when it writes a document *)
(* that another open transaction has written or that changed after its     *)
(* snapshot.  session.withTransaction re-runs the callback on such a       *)
(* transient error while its retry window is open.                         *)
(***************************************************************************)
EXTENDS Integers, Sequences, FiniteSets, TLC

(* ------------------------------ bounds -------------------------------- *)
MaxCalls == 2
MaxTokens == 2
MaxTicks == 3
MaxAuthCalls == 2
MaxSnapshots == 1

(* ------------------------- program constants -------------------------- *)
TOKEN_TTL_MS == 5 * 60 * 1000
\* the clock of the model advances in steps of half a token lifetime
TickMs == TOKEN_TTL_MS \div 2
\* session.withTransaction stops re-running the callback after 120 s
TxnRetryLimitMs == 120 * 1000
\* authController: the OTP and the failed-login windows and their limits
OTP_WINDOW_MS == 60 * 60 * 1000
OTP_MAX_PER_WINDOW == 10
LOGIN_WINDOW_MS == 15 * 60 * 1000
LOGIN_MAX_FAILED == 5
\* otpService.js: lifetime of a one-time code
OTP_TTL_MS == 5 * 60 * 1000

(* --------------------------- input domains ---------------------------- *)
Procs == 1..MaxCalls
VoterIds == {"v1", "v2"}
AdminElectionIds == {"e1"}
ElectionIds == {"e1", "e2"}
CandidateArgs == {"c1", "c2"}
NoNonce == "null"
TokenIdOf(k) == "t" \o ToString(k)
NonceOf(k) == "n" \o ToString(k)
TokenIdArgs == {TokenIdOf(k) : k \in 1..MaxTokens}
NonceArgs == {NoNonce, NonceOf(1)}
EmptyDoc == << >>
AuthCalls == 1..MaxAuthCalls
PhoneHashes == {"ph1", "ph2"}

\* the phone of a sendOtp request body: blank, or one of two numbers
PhoneArgs == {"", "p1", "p2"}

\* the password of a login request body: blank, the voter's, or another
PasswordArgs == {"", "right", "wrong"}

\* the candidates collection is seeded outside the program and never written
candidates ==
  { [electionId |-> "e1", candidateId |-> "c1", status |-> "active"],
    [electionId |-> "e1", candidateId |-> "c2", status |-> "inactive"],
    [electionId |-> "e2", candidateId |-> "c2", status |-> "active"] }

VARIABLES voters, votingTokens, purged, votes, elections, now, calls, issue

\* the attempt counters: the otp_attempts and login_attempts collections,
\* the sendOtp and login requests being served, and per subject the window
\* and the number of attempts an observer of the requests counts
VARIABLES otp_attempts, login_attempts, sends, logins, otpSeen, loginSeen

\* the electionSnapshots collection
VARIABLES electionSnapshots

\* registration: the in-memory otpStore of otpService, the
\* verifyOtpAndCreateVoter requests being served, and per phoneHash what an
\* observer of the requests knows of the latest code (when it was sent,
\* whether it has been accepted)
VARIABLES otpStore, regs, otpSent

regVars == <<otpStore, regs, otpSent>>

authVars == <<otp_attempts, login_attempts, sends, logins, otpSeen, loginSeen,
              regVars>>

adminVars == <<electionSnapshots>>

voteVars == <<voters, votingTokens, purged, votes, elections, calls, issue,
              adminVars>>

vars == <<voters, votingTokens, purged, votes, elections, now, calls, issue,
          authVars, adminVars>>

(* ------------------------------ documents ----------------------------- *)
VoterDoc(v, st, t) ==
  [voterId |-> v, hasVoted |-> FALSE, status |-> st,
   createdAt |-> t, updatedAt |-> t, version |-> 1, meta |-> EmptyDoc]

IdleCall ==
  [pc |-> "idle", voterId |-> "", tokenId |-> "", electionId |-> "",
   candidateId |-> "", nonce |-> NoNonce, now |-> 0,
   voter |-> << >>, tokenIdx |-> 0, tokenDoc |-> << >>, vote |-> << >>,
   voted0 |-> FALSE, elig0 |-> FALSE, retried |-> FALSE, result |-> "",
   user |-> [hasVoted |-> FALSE, status |-> ""]]

IdleIssue ==
  [pc |-> "idle", voterId |-> "", electionId |-> "", now |-> 0,
   votedAtStart |-> FALSE, closedAtStart |-> FALSE,
   tokenIdx |-> 0, result |-> ""]

\* the otp_attempts row the reset branch of sendOtp writes
OtpAttemptDoc(ph, t) ==
  [phoneHash |-> ph, count |-> 1, windowEndsAt |-> t + OTP_WINDOW_MS,
   createdAt |-> t, meta |-> EmptyDoc]

\* the login_attempts row the reset branch of recordLoginFailure writes
LoginAttemptDoc(v, t) ==
  [voterId |-> v, count |-> 1, windowEndsAt |-> t + LOGIN_WINDOW_MS,
   createdAt |-> t, meta |-> EmptyDoc]

\* a sendOtp request: the clock it read, the row it found, whether that row
\* has been deleted since
IdleSend ==
  [pc |-> "idle", phoneHash |-> "", now |-> 0, existing |-> << >>,
   gone |-> FALSE, result |-> ""]

\* a login request: the clock it read and the attempts row it found
IdleLogin ==
  [pc |-> "idle", voterId |-> "", password |-> "", now |-> 0,
   attemptDoc |-> << >>, result |-> ""]

\* a verifyOtpAndCreateVoter request; an answered one keeps its answer only
IdleReg ==
  [pc |-> "idle", voterId |-> "", phoneHash |-> "", result |-> ""]

(* ------------------------------- Init --------------------------------- *)
\* v1 is a registered active voter; v2 is active, blocked or not registered
InitBase ==
  /\ \E st2 \in {"active", "blocked", "absent"} :
       voters = [v \in (IF st2 = "absent" THEN {"v1"} ELSE VoterIds) |->
                   VoterDoc(v, IF v = "v2" THEN st2 ELSE "active", 0)]
  /\ votingTokens = << >>
  /\ purged = {}
  /\ votes = << >>
  /\ elections = << >>
  /\ now = 0
  /\ calls = [p \in Procs |-> IdleCall]
  /\ issue = IdleIssue
  /\ login_attempts = << >>
  /\ sends = [s \in AuthCalls |-> IdleSend]
  /\ logins = [l \in AuthCalls |-> IdleLogin]
  /\ loginSeen = << >>
  /\ electionSnapshots = << >>
  /\ regs = [r \in AuthCalls |-> IdleReg]

\* no one-time code has been requested yet
Init ==
  /\ InitBase
  /\ otp_attempts = << >>
  /\ otpSeen = << >>
  /\ otpStore = << >>
  /\ otpSent = << >>

(* ----------------------------- store reads ---------------------------- *)
\* voters.findOne({ voterId })
FindVoter(v) == IF v \in DOMAIN voters THEN <<voters[v]>> ELSE << >>

\* faulty variant: the token is looked up by tokenId alone
FindTokenIdx_AnyElection(t, e) ==
  LET hits == {k \in DOMAIN votingTokens :
                 /\ k \notin purged
                 /\ votingTokens[k].tokenId = t}
  IN IF hits = {} THEN 0 ELSE CHOOSE k \in hits : \A j \in hits : k <= j

\* votingTokens.findOne({ tokenId, electionId }): index of the document, 0 if none
FindTokenIdx(t, e) ==
  LET hits == {k \in DOMAIN votingTokens :
                 /\ k \notin purged
                 /\ votingTokens[k].tokenId = t
                 /\ votingTokens[k].electionId = e}
  IN IF hits = {} THEN 0 ELSE CHOOSE k \in hits : \A j \in hits : k <= j

\* candidates.findOne({ electionId, candidateId, status: 'active' })
FindActiveCandidate(e, c) ==
  \E d \in candidates :
     d.electionId = e /\ d.candidateId = c /\ d.status = "active"

\* faulty variant: only the status closed shuts the gate
isElectionOpen_NotClosed(e) ==
  IF e \notin DOMAIN elections THEN TRUE ELSE elections[e].status # "closed"

\* voteService.isElectionOpen
isElectionOpen(e) ==
  IF e \notin DOMAIN elections THEN TRUE ELSE elections[e].status = "open"

\* history of a request, recorded when it arrives: its voter had already
\* voted / its voter was eligible and its token stored, unspent and unexpired
VotedAtStart(v) == v \in DOMAIN voters /\ voters[v].hasVoted
EligibleAtStart(v, t, e) ==
  /\ v \in DOMAIN voters
  /\ voters[v].status = "active"
  /\ ~voters[v].hasVoted
  /\ FindTokenIdx(t, e) # 0
  /\ ~votingTokens[FindTokenIdx(t, e)].spent
  /\ votingTokens[FindTokenIdx(t, e)].expiresAt > now

(* ------------------------------ issueToken ---------------------------- *)
\* the request is answered: the slot keeps its arguments, the result and
\* the history
IssueFinish(rq, r, k) ==
  [rq EXCEPT !.pc = "done", !.result = r, !.tokenIdx = k, !.now = 0]

\* faulty variant: the voter is looked up before the election gate
IssueGate_VoterFirst(v, e) ==
  /\ issue.pc \in {"idle", "done"}
  /\ LET rq == [IdleIssue EXCEPT
                   !.voterId = v, !.electionId = e,
                   !.votedAtStart = VotedAtStart(v),
                   !.closedAtStart = ~isElectionOpen(e)]
     IN issue' = IF FindVoter(v) = << >>
                 THEN IssueFinish(rq, "VOTER_NOT_FOUND", 0)
                 ELSE IF isElectionOpen(e)
                      THEN [rq EXCEPT !.pc = "gated"]
                      ELSE IssueFinish(rq, "ELECTION_NOT_OPEN", 0)
  /\ UNCHANGED <<voters, votingTokens, purged, votes, elections, now, calls, authVars, adminVars>>

\* step 1: the election gate
IssueGate(v, e) ==
  /\ issue.pc \in {"idle", "done"}
  /\ LET rq == [IdleIssue EXCEPT
                   !.voterId = v, !.electionId = e,
                   !.votedAtStart = VotedAtStart(v),
                   !.closedAtStart = ~isElectionOpen(e)]
     IN issue' = IF isElectionOpen(e)
                 THEN [rq EXCEPT !.pc = "gated"]
                 ELSE IssueFinish(rq, "ELECTION_NOT_OPEN", 0)
  /\ UNCHANGED <<voters, votingTokens, purged, votes, elections, now, calls, authVars, adminVars>>

\* faulty variant: issueToken does not look at hasVoted
IssueVoterCheck_NoVotedCheck(voterSeq) ==
  IF voterSeq = << >> THEN "VOTER_NOT_FOUND"
  ELSE IF voterSeq[1].status # "active" THEN "VOTER_INACTIVE"
  ELSE "pass"

\* the voter checks of issueToken, in source order
IssueVoterCheck(voterSeq) ==
  IF voterSeq = << >> THEN "VOTER_NOT_FOUND"
  ELSE IF voterSeq[1].status # "active" THEN "VOTER_INACTIVE"
  ELSE IF voterSeq[1].hasVoted THEN "ALREADY_VOTED"
  ELSE "pass"

\* step 2: load the voter, check it, read the clock
IssueLoadVoter ==
  /\ issue.pc = "gated"
  /\ LET r == IssueVoterCheck(FindVoter(issue.voterId))
     IN /\ r = "pass" => Len(votingTokens) < MaxTokens
        /\ issue' = IF r = "pass"
                    THEN [issue EXCEPT !.pc = "loaded", !.now = now]
                    ELSE IssueFinish(issue, r, 0)
  /\ UNCHANGED <<voters, votingTokens, purged, votes, elections, now, calls, authVars, adminVars>>

\* faulty variant: the token row records the requesting voter
TokenDoc_WithVoter(k, e, t) ==
  [tokenId |-> TokenIdOf(k), electionId |-> e, spent |-> FALSE,
   expiresAt |-> t + TOKEN_TTL_MS, createdAt |-> t, updatedAt |-> t,
   version |-> 1, meta |-> [nonce |-> NonceOf(k), voterId |-> issue.voterId]]

\* faulty variant: the token is always scoped to the configured election
TokenDoc_DefaultElection(k, e, t) ==
  [tokenId |-> TokenIdOf(k), electionId |-> "e1", spent |-> FALSE,
   expiresAt |-> t + TOKEN_TTL_MS, createdAt |-> t, updatedAt |-> t,
   version |-> 1, meta |-> [nonce |-> NonceOf(k)]]

\* the document issueToken inserts
TokenDoc(k, e, t) ==
  [tokenId |-> TokenIdOf(k), electionId |-> e, spent |-> FALSE,
   expiresAt |-> t + TOKEN_TTL_MS, createdAt |-> t, updatedAt |-> t,
   version |-> 1, meta |-> [nonce |-> NonceOf(k)]]

\* step 3: votingTokens.insertOne(tokenDoc)
IssueInsert ==
  /\ issue.pc = "loaded"
  /\ LET k == Len(votingTokens) + 1
     IN /\ votingTokens' = Append(votingTokens, TokenDoc(k, issue.electionId, issue.now))
        /\ issue' = IssueFinish(issue, "OK", k)
  /\ UNCHANGED <<voters, purged, votes, elections, now, calls, authVars, adminVars>>

(* ------------------------------ submitVote ---------------------------- *)
\* request parsing: the clock is read once, before the transaction starts
SubmitBeginAs(p, v, t, c, e, n, hv) ==
  /\ hv => VotedAtStart(v)
  /\ calls[p].pc = "idle"
  /\ IF p = 1 THEN TRUE ELSE calls[p - 1].pc # "idle"
  /\ calls' = [calls EXCEPT ![p] =
       [IdleCall EXCEPT
          !.voterId = v, !.tokenId = t, !.candidateId = c,
          !.electionId = e, !.nonce = n,
          !.user = [hasVoted |-> hv, status |-> "active"],
          !.voted0 = VotedAtStart(v), !.elig0 = EligibleAtStart(v, t, e),
          !.now = IF t = "" \/ c = "" THEN 0 ELSE now,
          !.pc = IF t = "" \/ c = "" THEN "done" ELSE "started",
          !.result = IF t = "" \/ c = "" THEN "VALIDATION_ERROR" ELSE ""]]
  /\ UNCHANGED <<voters, votingTokens, purged, votes, elections, now, issue, authVars, adminVars>>

\* a submit whose credential was issued by a login just before it
SubmitBegin(p, v, t, c, e, n) ==
  SubmitBeginAs(p, v, t, c, e, n, VotedAtStart(v))

\* the request is answered: the call keeps its arguments and its result only
Finish(c, r) ==
  [c EXCEPT !.pc = "done", !.result = r, !.now = 0, !.voter = << >>,
            !.tokenIdx = 0, !.tokenDoc = << >>, !.vote = << >>]

\* faulty variant: the token checks run before the hasVoted check
SubmitChecks_TokenFirst(voterSeq, tokSeq, nonce, candOk, callNow) ==
  IF voterSeq = << >> THEN "VOTER_NOT_FOUND"
  ELSE IF voterSeq[1].status # "active" THEN "VOTER_INACTIVE"
  ELSE IF tokSeq = << >> THEN "INVALID_VOTE_TOKEN"
  ELSE IF tokSeq[1].spent THEN "TOKEN_ALREADY_USED"
  ELSE IF tokSeq[1].expiresAt <= callNow THEN "TOKEN_EXPIRED"
  ELSE IF voterSeq[1].hasVoted THEN "ALREADY_VOTED"
  ELSE IF nonce # NoNonce /\ nonce # tokSeq[1].meta.nonce THEN "TOKEN_NONCE_MISMATCH"
  ELSE IF ~candOk THEN "INVALID_CANDIDATE"
  ELSE "pass"

\* faulty variant: the expiry check adds the token lifetime a second time
SubmitChecks_DoubleTtl(voterSeq, tokSeq, nonce, candOk, callNow) ==
  IF voterSeq = << >> THEN "VOTER_NOT_FOUND"
  ELSE IF voterSeq[1].status # "active" THEN "VOTER_INACTIVE"
  ELSE IF voterSeq[1].hasVoted THEN "ALREADY_VOTED"
  ELSE IF tokSeq = << >> THEN "INVALID_VOTE_TOKEN"
  ELSE IF tokSeq[1].spent THEN "TOKEN_ALREADY_USED"
  ELSE IF tokSeq[1].expiresAt + TOKEN_TTL_MS <= callNow THEN "TOKEN_EXPIRED"
  ELSE IF nonce # NoNonce /\ nonce # tokSeq[1].meta.nonce THEN "TOKEN_NONCE_MISMATCH"
  ELSE IF ~candOk THEN "INVALID_CANDIDATE"
  ELSE "pass"

\* faulty variant: the nonce is compared before the expiry check
SubmitChecks_NonceFirst(voterSeq, tokSeq, nonce, candOk, callNow) ==
  IF voterSeq = << >> THEN "VOTER_NOT_FOUND"
  ELSE IF voterSeq[1].status # "active" THEN "VOTER_INACTIVE"
  ELSE IF voterSeq[1].hasVoted THEN "ALREADY_VOTED"
  ELSE IF tokSeq = << >> THEN "INVALID_VOTE_TOKEN"
  ELSE IF tokSeq[1].spent THEN "TOKEN_ALREADY_USED"
  ELSE IF nonce # NoNonce /\ nonce # tokSeq[1].meta.nonce THEN "TOKEN_NONCE_MISMATCH"
  ELSE IF tokSeq[1].expiresAt <= callNow THEN "TOKEN_EXPIRED"
  ELSE IF ~candOk THEN "INVALID_CANDIDATE"
  ELSE "pass"

\* faulty variant: the supplied nonce is never compared
SubmitChecks_NoNonceCheck(voterSeq, tokSeq, nonce, candOk, callNow) ==
  IF voterSeq = << >> THEN "VOTER_NOT_FOUND"
  ELSE IF voterSeq[1].status # "active" THEN "VOTER_INACTIVE"
  ELSE IF voterSeq[1].hasVoted THEN "ALREADY_VOTED"
  ELSE IF tokSeq = << >> THEN "INVALID_VOTE_TOKEN"
  ELSE IF tokSeq[1].spent THEN "TOKEN_ALREADY_USED"
  ELSE IF tokSeq[1].expiresAt <= callNow THEN "TOKEN_EXPIRED"
  ELSE IF ~candOk THEN "INVALID_CANDIDATE"
  ELSE "pass"

\* the read checks of the transaction body, in source order
SubmitChecks(voterSeq, tokSeq, nonce, candOk, callNow) ==
  IF voterSeq = << >> THEN "VOTER_NOT_FOUND"
  ELSE IF voterSeq[1].status # "active" THEN "VOTER_INACTIVE"
  ELSE IF voterSeq[1].hasVoted THEN "ALREADY_VOTED"
  ELSE IF tokSeq = << >> THEN "INVALID_VOTE_TOKEN"
  ELSE IF tokSeq[1].spent THEN "TOKEN_ALREADY_USED"
  ELSE IF tokSeq[1].expiresAt <= callNow THEN "TOKEN_EXPIRED"
  ELSE IF nonce # NoNonce /\ nonce # tokSeq[1].meta.nonce THEN "TOKEN_NONCE_MISMATCH"
  ELSE IF ~candOk THEN "INVALID_CANDIDATE"
  ELSE "pass"

\* faulty variant: the token is marked spent outside the transaction, before the
\* candidate is validated
SubmitValidate_SpendEarly(p) ==
  /\ calls[p].pc = "started"
  /\ LET c == calls[p]
         vs == FindVoter(c.voterId)
         k == FindTokenIdx(c.tokenId, c.electionId)
         ts == IF k = 0 THEN << >> ELSE <<votingTokens[k]>>
         r == SubmitChecks(vs, ts, c.nonce,
                           FindActiveCandidate(c.electionId, c.candidateId), c.now)
     IN /\ calls' = [calls EXCEPT ![p] =
             IF r = "pass"
             THEN [c EXCEPT !.pc = "validated", !.voter = vs, !.tokenIdx = k, !.tokenDoc = ts]
             ELSE Finish(c, r)]
        /\ votingTokens' =
             IF r = "INVALID_CANDIDATE"
             THEN [votingTokens EXCEPT ![k] = [@ EXCEPT !.spent = TRUE]]
             ELSE votingTokens
  /\ UNCHANGED <<voters, purged, votes, elections, now, issue, authVars, adminVars>>

\* faulty variant: the hasVoted flag is taken from the caller's credential
SubmitValidate_TrustsCredential(p) ==
  /\ calls[p].pc = "started"
  /\ LET c == calls[p]
         stored == FindVoter(c.voterId)
         vs == IF stored = << >> THEN << >>
               ELSE <<[stored[1] EXCEPT !.hasVoted = c.user.hasVoted]>>
         k == FindTokenIdx(c.tokenId, c.electionId)
         ts == IF k = 0 THEN << >> ELSE <<votingTokens[k]>>
         r == SubmitChecks(vs, ts, c.nonce,
                           FindActiveCandidate(c.electionId, c.candidateId), c.now)
     IN calls' = [calls EXCEPT ![p] =
          IF r = "pass"
          THEN [c EXCEPT !.pc = "validated", !.voter = stored, !.tokenIdx = k, !.tokenDoc = ts]
          ELSE Finish(c, r)]
  /\ UNCHANGED <<voters, votingTokens, purged, votes, elections, now, issue, authVars, adminVars>>

\* steps 1-3 of the body: the three findOne calls read one snapshot
SubmitValidate(p) ==
  /\ calls[p].pc = "started"
  /\ LET c == calls[p]
         vs == FindVoter(c.voterId)
         k == FindTokenIdx(c.tokenId, c.electionId)
         ts == IF k = 0 THEN << >> ELSE <<votingTokens[k]>>
         r == SubmitChecks(vs, ts, c.nonce,
                           FindActiveCandidate(c.electionId, c.candidateId), c.now)
     IN calls' = [calls EXCEPT ![p] =
          IF r = "pass"
          THEN [c EXCEPT !.pc = "validated", !.voter = vs, !.tokenIdx = k, !.tokenDoc = ts]
          ELSE Finish(c, r)]
  /\ UNCHANGED <<voters, votingTokens, purged, votes, elections, now, issue, authVars, adminVars>>

\* open transactions that hold an uncommitted write of token k / voter v
TokenWriters(k) ==
  {q \in Procs : calls[q].pc \in {"tokenMarked", "voteInserted", "voterMarked"}
                 /\ calls[q].tokenIdx = k}
VoterWriters(v) ==
  {q \in Procs : calls[q].pc = "voterMarked" /\ calls[q].voterId = v}

\* faulty variant: the token write is never checked against concurrent writers
TokenWriteConflict_Off(p) == FALSE

\* the store reports a write conflict for p's write of its token
TokenWriteConflict(p) ==
  LET k == calls[p].tokenIdx
  IN \/ TokenWriters(k) \ {p} # {}
     \/ k \in purged
     \/ <<votingTokens[k]>> # calls[p].tokenDoc

\* faulty variant: the voter write is never checked against concurrent writers
VoterWriteConflict_Off(p) == FALSE

\* the store reports a write conflict for p's write of its voter row
VoterWriteConflict(p) ==
  LET v == calls[p].voterId
  IN \/ VoterWriters(v) \ {p} # {}
     \/ FindVoter(v) # calls[p].voter

\* faulty variant: after a write conflict the call neither re-runs nor gives
\* up
AfterWriteConflict_Blocked(c) == c

\* session.withTransaction: abort, then re-run the callback or give up
AfterWriteConflict(c) ==
  IF now - c.now < TxnRetryLimitMs
  THEN [c EXCEPT !.pc = "started", !.voter = << >>, !.tokenIdx = 0,
                 !.tokenDoc = << >>, !.vote = << >>, !.retried = TRUE]
  ELSE Finish(c, "INTERNAL_ERROR")

\* faulty variant: the token update is issued without the session, so it is
\* applied at once instead of at commit
SubmitMarkToken_NoSession(p) ==
  /\ calls[p].pc = "validated"
  /\ LET c == calls[p]
     IN /\ calls' = [calls EXCEPT ![p] =
             IF TokenWriteConflict(p) THEN AfterWriteConflict(c)
             ELSE IF c.tokenDoc[1].spent
                  THEN Finish(c, "TOKEN_ALREADY_USED")
                  ELSE [c EXCEPT !.pc = "tokenMarked"]]
        /\ votingTokens' =
             IF TokenWriteConflict(p) \/ c.tokenDoc[1].spent
             THEN votingTokens
             ELSE [votingTokens EXCEPT ![c.tokenIdx] =
                     [@ EXCEPT !.spent = TRUE, !.updatedAt = c.now]]
  /\ UNCHANGED <<voters, purged, votes, elections, now, issue, authVars, adminVars>>

\* step 4: votingTokens.updateOne({ _id, spent: false }, { $set: { spent: true } })
SubmitMarkToken(p) ==
  /\ calls[p].pc = "validated"
  /\ LET c == calls[p]
     IN calls' = [calls EXCEPT ![p] =
          IF TokenWriteConflict(p) THEN AfterWriteConflict(c)
          ELSE IF c.tokenDoc[1].spent
               THEN Finish(c, "TOKEN_ALREADY_USED")
               ELSE [c EXCEPT !.pc = "tokenMarked"]]
  /\ UNCHANGED <<voters, votingTokens, purged, votes, elections, now, issue, authVars, adminVars>>

\* faulty variant: the vote row records who cast it
VoteDoc_WithVoter(c, sig) ==
  [electionId |-> c.electionId, candidateId |-> c.candidateId,
   createdAt |-> c.now, serverSig |-> sig, version |-> 1, meta |-> EmptyDoc,
   voterId |-> c.voterId]

\* the document submitVote inserts into votes
VoteDoc(c, sig) ==
  [electionId |-> c.electionId, candidateId |-> c.candidateId,
   createdAt |-> c.now, serverSig |-> sig, version |-> 1, meta |-> EmptyDoc]

\* step 5: votes.insertOne(...), buffered in the transaction
SubmitInsertVote(p) ==
  /\ calls[p].pc = "tokenMarked"
  /\ LET c == calls[p]
     IN calls' = [calls EXCEPT ![p] =
          [c EXCEPT !.pc = "voteInserted",
                    !.vote = <<VoteDoc(c, "sig" \o ToString(p))>>]]
  /\ UNCHANGED <<voters, votingTokens, purged, votes, elections, now, issue, authVars, adminVars>>

\* faulty variant: the voter update is issued without the session, so it is
\* applied at once instead of at commit
SubmitMarkVoter_NoSession(p) ==
  /\ calls[p].pc = "voteInserted"
  /\ LET c == calls[p]
     IN /\ calls' = [calls EXCEPT ![p] =
             IF c.voter = << >>
             THEN Finish(c, "VOTER_NOT_FOUND")
             ELSE [c EXCEPT !.pc = "voterMarked"]]
        /\ voters' = [voters EXCEPT ![c.voterId] =
                        [@ EXCEPT !.hasVoted = TRUE, !.updatedAt = c.now]]
  /\ UNCHANGED <<votingTokens, purged, votes, elections, now, issue, authVars, adminVars>>

\* step 6: voters.updateOne({ voterId }, { $set: { hasVoted: true } })
SubmitMarkVoter(p) ==
  /\ calls[p].pc = "voteInserted"
  /\ LET c == calls[p]
     IN calls' = [calls EXCEPT ![p] =
          IF VoterWriteConflict(p) THEN AfterWriteConflict(c)
          ELSE IF c.voter = << >>
               THEN Finish(c, "VOTER_NOT_FOUND")
               ELSE [c EXCEPT !.pc = "voterMarked"]]
  /\ UNCHANGED <<voters, votingTokens, purged, votes, elections, now, issue, authVars, adminVars>>

\* faulty variant: the voter update touches updatedAt only
VotedVoter_NoFlag(d, t) == [d EXCEPT !.updatedAt = t]

\* faulty variant: a failed transaction leaves its buffered vote behind
SubmitStorageAbort_KeepsVote(p) ==
  /\ calls[p].pc \in {"validated", "tokenMarked", "voteInserted", "voterMarked"}
  /\ calls' = [calls EXCEPT ![p] = Finish(calls[p], "INTERNAL_ERROR")]
  /\ votes' = IF calls[p].vote = << >> THEN votes
              ELSE Append(votes, calls[p].vote[1])
  /\ UNCHANGED <<voters, votingTokens, purged, elections, now, issue, authVars, adminVars>>

\* the store fails a statement of the transaction, or its commit, for a
\* reason the driver does not retry: the callback throws, the transaction
\* is aborted and the error goes to the error handler
SubmitStorageAbort(p) ==
  /\ calls[p].pc \in {"validated", "tokenMarked", "voteInserted", "voterMarked"}
  /\ calls' = [calls EXCEPT ![p] = Finish(calls[p], "INTERNAL_ERROR")]
  /\ UNCHANGED <<voters, votingTokens, purged, votes, elections, now, issue, authVars, adminVars>>

\* the token and voter rows as the transaction leaves them
SpentToken(d, t) == [d EXCEPT !.spent = TRUE, !.updatedAt = t]
VotedVoter(d, t) == [d EXCEPT !.hasVoted = TRUE, !.updatedAt = t]

\* commit: the three buffered writes become visible together
SubmitCommit(p) ==
  /\ calls[p].pc = "voterMarked"
  /\ LET c == calls[p]
     IN /\ votingTokens' = [votingTokens EXCEPT
                              ![c.tokenIdx] = SpentToken(c.tokenDoc[1], c.now)]
        /\ votes' = Append(votes, c.vote[1])
        /\ voters' = [voters EXCEPT ![c.voterId] = VotedVoter(c.voter[1], c.now)]
        /\ calls' = [calls EXCEPT ![p] = Finish(c, "OK")]
  /\ UNCHANGED <<purged, elections, now, issue, authVars, adminVars>>

(* ------------------------------- admin -------------------------------- *)
\* elections.updateOne({ electionId }, { $set: { status } }, { upsert: true })
SetElectionStatus(e, st) ==
  [x \in DOMAIN elections \cup {e} |->
     IF x = e THEN [electionId |-> e, status |-> st] ELSE elections[x]]

openElection(e) ==
  /\ elections' = SetElectionStatus(e, "open")
  /\ UNCHANGED <<voters, votingTokens, purged, votes, now, calls, issue, authVars, adminVars>>

\* faulty variant: closing removes the election record instead of marking it
closeElection_RemovesRecord(e) ==
  /\ elections' = [x \in DOMAIN elections \ {e} |-> elections[x]]
  /\ UNCHANGED <<voters, votingTokens, purged, votes, now, calls, issue, authVars, adminVars>>

closeElection(e) ==
  /\ elections' = SetElectionStatus(e, "closed")
  /\ UNCHANGED <<voters, votingTokens, purged, votes, now, calls, issue, authVars, adminVars>>

\* the candidate totals of finalizeElection: the vote rows of the election
\* grouped by candidateId, for the candidates known in that election
CandidateTotals(e) ==
  LET known == {d.candidateId : d \in {x \in candidates : x.electionId = e}}
      voted == {votes[i].candidateId :
                  i \in {j \in DOMAIN votes : votes[j].electionId = e}}
  IN [c \in known \cap voted |->
        Cardinality({i \in DOMAIN votes :
                       votes[i].electionId = e /\ votes[i].candidateId = c})]

\* the document finalizeElection inserts into electionSnapshots (the party
\* totals regroup the candidate totals and are left out)
SnapshotDoc(e) ==
  [electionId |-> e, createdAt |-> now,
   turnout |-> [totalVoters |-> Cardinality(DOMAIN voters),
                votersVoted |-> Cardinality({v \in DOMAIN voters : voters[v].hasVoted})],
   candidateTotals |-> CandidateTotals(e)]

\* faulty variant: finalizing removes the vote rows of the election
finalizeElection_ArchivesVotes(e) ==
  /\ Len(electionSnapshots) < MaxSnapshots
  /\ electionSnapshots' = Append(electionSnapshots, SnapshotDoc(e))
  /\ elections' = SetElectionStatus(e, "finalized")
  /\ votes' = SelectSeq(votes, LAMBDA d : d.electionId # e)
  /\ UNCHANGED <<voters, votingTokens, purged, now, calls, issue, authVars>>

\* finalizeElection: recompute the totals, insert the snapshot, upsert
\* status 'finalized'
finalizeElection(e) ==
  /\ Len(electionSnapshots) < MaxSnapshots
  /\ electionSnapshots' = Append(electionSnapshots, SnapshotDoc(e))
  /\ elections' = SetElectionStatus(e, "finalized")
  /\ UNCHANGED <<voters, votingTokens, purged, votes, now, calls, issue, authVars>>

(* ------------------------------ counters ------------------------------ *)
\* a function with key k set to d
Upsert(f, k, d) == [x \in DOMAIN f \cup {k} |-> IF x = k THEN d ELSE f[x]]

\* a function with key k removed
Remove(f, k) == [x \in DOMAIN f \ {k} |-> f[x]]

\* what an observer who is told of each attempt, with the time its request
\* was received, counts for one subject: the first attempt, and the first
\* one at or after the end of the window, opens a window; every other one
\* adds one to the window's count
Observe(seen, k, t, window) ==
  IF k \in DOMAIN seen /\ t < seen[k].start + window
  THEN Upsert(seen, k, [seen[k] EXCEPT !.n = @ + 1])
  ELSE Upsert(seen, k, [start |-> t, n |-> 1])

\* otpAttempts.findOne({ phoneHash })
FindOtpAttempts(ph) ==
  IF ph \in DOMAIN otp_attempts THEN <<otp_attempts[ph]>> ELSE << >>

\* loginAttempts.findOne({ voterId })
FindLoginAttempts(v) ==
  IF v \in DOMAIN login_attempts THEN <<login_attempts[v]>> ELSE << >>

\* variant: a window that ends at time t still counts as running
WindowActive_Inclusive(docSeq, t) ==
  docSeq # << >> /\ docSeq[1].windowEndsAt >= t

\* the row is there and its window has not ended at time t
WindowActive(docSeq, t) == docSeq # << >> /\ docSeq[1].windowEndsAt > t

\* no sendOtp or login request is being served
AuthQuiet ==
  /\ \A s \in AuthCalls : sends[s].pc \in {"idle", "done"}
  /\ \A l \in AuthCalls : logins[l].pc \in {"idle", "done"}

\* hashPhone: SHA-256 of the phone, one hash per phone
hashPhone(phone) == IF phone = "p1" THEN "ph1" ELSE "ph2"

\* sendOtp, step 1: validate the body, read the clock and the row; refuse at
\* the limit
sendOtpRead(s, phone) ==
  /\ sends[s].pc \in {"idle", "done"}
  /\ LET ph == hashPhone(phone)
         ex == FindOtpAttempts(ph)
         rq == [IdleSend EXCEPT !.phoneHash = ph, !.now = now]
     IN sends' = [sends EXCEPT ![s] =
          IF phone = ""
          THEN [IdleSend EXCEPT !.pc = "done", !.result = "VALIDATION_ERROR"]
          ELSE IF WindowActive(ex, now) /\ ex[1].count >= OTP_MAX_PER_WINDOW
          THEN [rq EXCEPT !.pc = "done", !.result = "OTP_RATE_LIMITED", !.now = 0]
          ELSE [rq EXCEPT !.pc = "read", !.existing = ex]]
  /\ UNCHANGED <<voteVars, now, otp_attempts, login_attempts, logins,
                 otpSeen, loginSeen, regVars>>

\* sendOtp, step 2: $inc the row that was found (matched by _id), or upsert
\* a new window
sendOtpWrite(s) ==
  /\ sends[s].pc = "read"
  /\ LET c == sends[s]
     IN otp_attempts' =
          IF WindowActive(c.existing, c.now)
          THEN IF c.gone \/ c.phoneHash \notin DOMAIN otp_attempts
               THEN otp_attempts
               ELSE [otp_attempts EXCEPT ![c.phoneHash].count = @ + 1]
          ELSE Upsert(otp_attempts, c.phoneHash, OtpAttemptDoc(c.phoneHash, c.now))
  /\ sends' = [sends EXCEPT ![s] = [@ EXCEPT !.pc = "written", !.existing = << >>,
                                              !.gone = FALSE]]
  /\ UNCHANGED <<voteVars, now, login_attempts, logins, otpSeen, loginSeen, regVars>>

\* otpService.sendOtp: the entry of phoneHash is replaced by the new code,
\* valid for OTP_TTL_MS from the time of the call
otpServiceSendOtp(ph, code) ==
  Upsert(otpStore, ph, [code |-> code, expiresAt |-> now + OTP_TTL_MS])

\* String(code || '').trim() of the code a request carries
TrimCode(code) == IF code = " 111111 " THEN "111111" ELSE code

\* otpService.verifyOtp: its answer for phoneHash and code
verifyOtp(ph, code) ==
  /\ ph \in DOMAIN otpStore
  /\ ~(otpStore[ph].expiresAt < now)
  /\ otpStore[ph].code = TrimCode(code)

\* variant: an accepted code stays in the store
verifyOtpStore_Reusable(ph, code) ==
  IF ph \notin DOMAIN otpStore THEN otpStore
  ELSE IF otpStore[ph].expiresAt < now THEN Remove(otpStore, ph)
  ELSE otpStore

\* otpService.verifyOtp: the store it leaves; an expired entry and an
\* accepted one are deleted, a wrong code leaves the entry
verifyOtpStore(ph, code) ==
  IF ph \notin DOMAIN otpStore THEN otpStore
  ELSE IF otpStore[ph].expiresAt < now THEN Remove(otpStore, ph)
  ELSE IF otpStore[ph].code # TrimCode(code) THEN otpStore
  ELSE Remove(otpStore, ph)

\* sendOtp, step 3: otpService.sendOtp stores the code that generateOtpCode
\* drew; answer ok
sendOtpSendCode(s, code) ==
  /\ sends[s].pc = "written"
  /\ otpSeen' = Observe(otpSeen, sends[s].phoneHash, sends[s].now, OTP_WINDOW_MS)
  /\ otpStore' = otpServiceSendOtp(sends[s].phoneHash, code)
  /\ otpSent' = Upsert(otpSent, sends[s].phoneHash,
                        [code |-> code, at |-> now, accepted |-> FALSE])
  /\ sends' = [sends EXCEPT ![s] = [@ EXCEPT !.pc = "done", !.result = "ok",
                                              !.now = 0]]
  /\ UNCHANGED <<voteVars, now, otp_attempts, login_attempts, logins, loginSeen, regs>>

\* sendOtp, step 3, with one code for every draw
sendOtpSend(s) == sendOtpSendCode(s, "111111")

\* variant: a row at the limit locks the voterId whether or not its window
\* has ended
LoginLocked_NoExpiry(docSeq, t) ==
  docSeq # << >> /\ docSeq[1].count >= LOGIN_MAX_FAILED

\* variant: the gate shuts only above the limit
LoginLocked_AboveLimit(docSeq, t) ==
  WindowActive(docSeq, t) /\ docSeq[1].count > LOGIN_MAX_FAILED

\* the lockout gate of login
LoginLocked(docSeq, t) ==
  WindowActive(docSeq, t) /\ docSeq[1].count >= LOGIN_MAX_FAILED

\* verifyPassword(password, voter.passwordHash)
verifyPassword(password) == password = "right"

\* login, step 1: validate the body, read the clock and the attempts row;
\* the lockout gate
loginRead(l, v, pw) ==
  /\ logins[l].pc \in {"idle", "done"}
  /\ LET ad == FindLoginAttempts(v)
         rq == [IdleLogin EXCEPT !.voterId = v, !.password = pw]
     IN logins' = [logins EXCEPT ![l] =
          IF v = "" \/ pw = ""
          THEN [rq EXCEPT !.pc = "done", !.result = "VALIDATION_ERROR"]
          ELSE IF LoginLocked(ad, now)
          THEN [rq EXCEPT !.pc = "done", !.result = "ACCOUNT_LOCKED"]
          ELSE [rq EXCEPT !.pc = "gate", !.now = now, !.attemptDoc = ad]]
  /\ UNCHANGED <<voteVars, now, otp_attempts, login_attempts, sends,
                 otpSeen, loginSeen, regVars>>

\* login, step 2: load the voter and verify the password
loginFindVoter(l) ==
  /\ logins[l].pc = "gate"
  /\ LET c == logins[l]
         vs == FindVoter(c.voterId)
     IN /\ logins' = [logins EXCEPT ![l] =
             IF vs = << >> THEN [c EXCEPT !.pc = "failed"]
             ELSE IF vs[1].status # "active"
                  THEN [c EXCEPT !.pc = "done", !.result = "VOTER_INACTIVE",
                                 !.attemptDoc = << >>, !.now = 0]
             ELSE IF ~verifyPassword(c.password) THEN [c EXCEPT !.pc = "failed"]
             ELSE [c EXCEPT !.pc = "verified", !.attemptDoc = << >>]]
        /\ loginSeen' =
             IF vs = << >> \/ (vs[1].status = "active" /\ ~verifyPassword(c.password))
             THEN Observe(loginSeen, c.voterId, c.now, LOGIN_WINDOW_MS)
             ELSE loginSeen
  /\ UNCHANGED <<voteVars, now, otp_attempts, login_attempts, sends, otpSeen, regVars>>

\* recordLoginFailure: a new window when the row that was read is missing
\* or lapsed, else $inc of the row with this voterId; then answer
\* INVALID_CREDENTIALS
loginRecordFailure(l) ==
  /\ logins[l].pc = "failed"
  /\ LET c == logins[l]
     IN /\ login_attempts' =
             IF ~WindowActive(c.attemptDoc, c.now)
             THEN Upsert(login_attempts, c.voterId, LoginAttemptDoc(c.voterId, c.now))
             ELSE IF c.voterId \in DOMAIN login_attempts
                  THEN [login_attempts EXCEPT ![c.voterId].count = @ + 1]
                  ELSE login_attempts
        /\ logins' = [logins EXCEPT ![l] =
             [c EXCEPT !.pc = "done", !.result = "INVALID_CREDENTIALS",
                       !.attemptDoc = << >>, !.now = 0]]
  /\ UNCHANGED <<voteVars, now, otp_attempts, sends, otpSeen, loginSeen, regVars>>

\* variant: a successful login leaves the attempts row in place
loginClear_KeepsRow(l) ==
  /\ logins[l].pc = "verified"
  /\ logins' = [logins EXCEPT ![l] = [@ EXCEPT !.pc = "done", !.result = "OK",
                                                !.now = 0]]
  /\ UNCHANGED <<voteVars, now, otp_attempts, login_attempts, sends, otpSeen,
                 loginSeen, regVars>>

\* login, success: loginAttempts.deleteOne({ voterId }), sign the JWT
loginClear(l) ==
  /\ logins[l].pc = "verified"
  /\ login_attempts' = Remove(login_attempts, logins[l].voterId)
  /\ loginSeen' = Remove(loginSeen, logins[l].voterId)
  /\ logins' = [logins EXCEPT ![l] = [@ EXCEPT !.pc = "done", !.result = "OK",
                                                !.now = 0]]
  /\ UNCHANGED <<voteVars, now, otp_attempts, sends, otpSeen, regVars>>

(* ---------------------------- registration --------------------------- *)
\* the phone and the code of the registration that the one-client
\* specification serves
RegPhone == "p2"
RegCode == "111111"

\* authController.verifyOtpAndCreateVoter of a request with phone RegPhone
\* whose code the OTP service accepts, served without interruption: the
\* code is consumed; a voterId that is already registered is refused
\* (VOTER_ID_TAKEN), otherwise the voter row is inserted, active and with
\* hasVoted false
verifyOtpAndCreateVoter(v) ==
  /\ verifyOtp(hashPhone(RegPhone), RegCode)
  /\ otpStore' = verifyOtpStore(hashPhone(RegPhone), RegCode)
  /\ otpSent' = [otpSent EXCEPT ![hashPhone(RegPhone)].accepted = TRUE]
  /\ voters' = IF v \in DOMAIN voters THEN voters
               ELSE [x \in DOMAIN voters \cup {v} |->
                       IF x = v THEN VoterDoc(v, "active", now) ELSE voters[x]]
  /\ UNCHANGED <<votingTokens, purged, votes, elections, now, calls, issue,
                 otp_attempts, login_attempts, sends, logins, otpSeen, loginSeen,
                 regs, adminVars>>

\* the otpCode of a registration body: a code, the same code with blanks
\* around it, another code
CodeArgs == {"111111", " 111111 ", "222222"}

\* the codes generateOtpCode draws
OtpCodes == {"111111", "222222"}

\* verifyOtpAndCreateVoter, step 1: validate the body and ask the OTP
\* service; a blank voterId or phone is a VALIDATION_ERROR, a refused code
\* INVALID_OTP
registerVerifyOtpWrites(r, v, phone, code) ==
  /\ regs[r].pc \in {"idle", "done"}
  /\ LET ph == hashPhone(phone)
         rq == [IdleReg EXCEPT !.voterId = v, !.phoneHash = ph]
     IN IF v = "" \/ phone = ""
        THEN /\ regs' = [regs EXCEPT ![r] =
                  [IdleReg EXCEPT !.pc = "done", !.result = "VALIDATION_ERROR"]]
             /\ UNCHANGED <<otpStore, otpSent>>
        ELSE /\ regs' = [regs EXCEPT ![r] =
                  IF verifyOtp(ph, code) THEN [rq EXCEPT !.pc = "otpValid"]
                  ELSE [IdleReg EXCEPT !.pc = "done", !.result = "INVALID_OTP"]]
             /\ otpStore' = verifyOtpStore(ph, code)
             /\ otpSent' = IF verifyOtp(ph, code)
                           THEN [otpSent EXCEPT ![ph].accepted = TRUE]
                           ELSE otpSent

\* step 1 writes nothing else
registerVerifyOtp(r, v, phone, code) ==
  /\ registerVerifyOtpWrites(r, v, phone, code)
  /\ UNCHANGED <<voteVars, now, otp_attempts, login_attempts, sends, logins,
                 otpSeen, loginSeen>>

\* verifyOtpAndCreateVoter, step 2: voters.findOne({ voterId }); a
\* registered voterId is answered VOTER_ID_TAKEN
registerFindVoter(r) ==
  /\ regs[r].pc = "otpValid"
  /\ regs' = [regs EXCEPT ![r] =
       IF FindVoter(@.voterId) # << >>
       THEN [IdleReg EXCEPT !.pc = "done", !.result = "VOTER_ID_TAKEN"]
       ELSE [@ EXCEPT !.pc = "absent"]]
  /\ UNCHANGED <<voteVars, now, otp_attempts, login_attempts, sends, logins,
                 otpSeen, loginSeen, otpStore, otpSent>>

\* verifyOtpAndCreateVoter, step 3: voters.insertOne(voterDoc) and the
\* answer 201; the unique index on voterId fails the insert of a voterId
\* that was registered since step 2 with error E11000, passed to next(err)
registerInsert(r) ==
  /\ regs[r].pc = "absent"
  /\ LET v == regs[r].voterId
     IN IF v \in DOMAIN voters
        THEN /\ voters' = voters
             /\ regs' = [regs EXCEPT ![r] = [IdleReg EXCEPT !.pc = "done", !.result = "E11000"]]
        ELSE /\ voters' = Upsert(voters, v, VoterDoc(v, "active", now))
             /\ regs' = [regs EXCEPT ![r] = [IdleReg EXCEPT !.pc = "done", !.result = "CREATED"]]
  /\ UNCHANGED <<votingTokens, purged, votes, elections, now, calls, issue,
                 otp_attempts, login_attempts, sends, logins, otpSeen, loginSeen,
                 otpStore, otpSent, adminVars>>

(* ---------------------------- environment ----------------------------- *)
\* the wall clock advances
Tick ==
  /\ now + TickMs <= MaxTicks * TickMs
  /\ now' = now + TickMs
  /\ UNCHANGED <<voters, votingTokens, purged, votes, elections, calls, issue, authVars, adminVars>>

\* the TTL index on votingTokens.expiresAt removes an expired document
TTLDelete(k) ==
  /\ k \in DOMAIN votingTokens
  /\ k \notin purged
  /\ votingTokens[k].expiresAt <= now
  /\ TokenWriters(k) = {}
  /\ purged' = purged \cup {k}
  /\ UNCHANGED <<voters, votingTokens, votes, elections, now, calls, issue, authVars, adminVars>>

\* the wall clock advances by step, on a grid of steps
TickBy(step) ==
  /\ now % step = 0
  /\ now + step <= MaxTicks * step
  /\ now' = now + step
  /\ UNCHANGED <<voteVars, authVars>>

\* the clock in steps of half an OTP window / half a lockout window
TickOtp == TickBy(OTP_WINDOW_MS \div 2)
TickLogin == TickBy(LOGIN_WINDOW_MS \div 2)

\* the TTL index on otp_attempts.windowEndsAt removes a lapsed row; a
\* request that read the row no longer matches it by _id
TTLDeleteOtp(ph) ==
  /\ ph \in DOMAIN otp_attempts
  /\ otp_attempts[ph].windowEndsAt <= now
  /\ otp_attempts' = Remove(otp_attempts, ph)
  /\ sends' = [s \in AuthCalls |->
                 IF sends[s].pc = "read" /\ sends[s].phoneHash = ph
                    /\ sends[s].existing # << >>
                 THEN [sends[s] EXCEPT !.gone = TRUE]
                 ELSE sends[s]]
  /\ UNCHANGED <<voteVars, now, login_attempts, logins, otpSeen, loginSeen, regVars>>

\* the TTL index on login_attempts.windowEndsAt removes a lapsed row
TTLDeleteLogin(v) ==
  /\ v \in DOMAIN login_attempts
  /\ login_attempts[v].windowEndsAt <= now
  /\ login_attempts' = Remove(login_attempts, v)
  /\ UNCHANGED <<voteVars, now, otp_attempts, sends, logins, otpSeen, loginSeen, regVars>>

(* -------------------------------- Next -------------------------------- *)
(* ----------------------------- properties ----------------------------- *)
Done(p) == calls[p].pc = "done"
\* the finished submits naming token id t that committed
Winners(t) == {p \in Procs : Done(p) /\ calls[p].result = "OK" /\ calls[p].tokenId = t}
\* the submits naming token id t that arrived while their voter was eligible
\* and the token valid (stored, unspent, unexpired)
Contenders(t) == {p \in Procs : calls[p].tokenId = t /\ calls[p].elig0}

C2_OneVotePerVoter ==
  /\ \A v \in VoterIds :
       Cardinality({p \in Procs : Done(p) /\ calls[p].result = "OK"
                                  /\ calls[p].voterId = v}) <= 1
  /\ Len(votes) = Cardinality({p \in Procs : Done(p) /\ calls[p].result = "OK"})

\* C2 witness: one voter raced two submits with two different unspent
\* tokens; one committed and the other, re-run after the write conflict on
\* the voter row, was answered ALREADY_VOTED
C2_Witness ==
  \E p, q \in Procs :
    /\ p # q /\ Done(p) /\ Done(q)
    /\ calls[p].voterId = calls[q].voterId
    /\ calls[p].tokenId # calls[q].tokenId
    /\ calls[p].elig0 /\ calls[q].elig0
    /\ calls[p].result = "OK"
    /\ calls[q].result = "ALREADY_VOTED"
    /\ calls[q].retried
    /\ Len(votes) = 1

\* C3: in every state the number of vote rows, the number of voters with
\* hasVoted and the number of token rows marked spent (rows removed by the
\* TTL index included) are equal.
C3_AllOrNothing ==
  /\ Len(votes) = Cardinality({v \in DOMAIN voters : voters[v].hasVoted})
  /\ Len(votes) = Cardinality({k \in DOMAIN votingTokens : votingTokens[k].spent})

\* C3 witness: two commits have happened, each having written its vote
\* row, its voter flag and its token flag
C3_Witness ==
  /\ Len(votes) = 2
  /\ \A v \in VoterIds : voters[v].hasVoted
  /\ \A k \in DOMAIN votingTokens : votingTokens[k].spent

\* the failure kinds the read checks of submitVote report
ReadFailKinds ==
  {"VOTER_NOT_FOUND", "VOTER_INACTIVE", "ALREADY_VOTED", "INVALID_VOTE_TOKEN",
   "TOKEN_ALREADY_USED", "TOKEN_EXPIRED", "TOKEN_NONCE_MISMATCH",
   "INVALID_CANDIDATE"}
\* a step changes a voter row, a vote row or an existing token row
RowsChange ==
  \/ voters' # voters
  \/ votes' # votes
  \/ \E k \in DOMAIN votingTokens : votingTokens'[k] # votingTokens[k]

\* C4: the step that answers a submit with a read-check failure changes no
\* voter, token or vote row, and no other step of a submit but its commit
\* changes one, so a failed submit leaves the rows as they were; after an
\* INVALID_CANDIDATE answer the token is unspent as long as no submit has
\* committed it.
C4_FailureLeavesRows ==
  /\ [][\A p \in Procs :
          (calls[p].pc # "done" /\ calls'[p].pc = "done"
           /\ calls'[p].result \in ReadFailKinds)
            => (voters' = voters /\ votingTokens' = votingTokens
                /\ votes' = votes /\ purged' = purged)]_vars
  /\ [][RowsChange =>
          \E p \in Procs : calls[p].pc = "voterMarked" /\ calls'[p].result = "OK"]_vars
  /\ [](\A p \in Procs :
          (Done(p) /\ calls[p].result = "INVALID_CANDIDATE"
           /\ Winners(calls[p].tokenId) = {})
            => \A k \in DOMAIN votingTokens :
                 votingTokens[k].tokenId = calls[p].tokenId => ~votingTokens[k].spent)

\* C4 witness: a submit was answered INVALID_CANDIDATE and a later submit of
\* the same voter with the same token and an active candidate committed
C4_Witness ==
  \E p, q \in Procs :
    /\ p < q /\ Done(p) /\ Done(q)
    /\ calls[p].result = "INVALID_CANDIDATE"
    /\ calls[q].result = "OK"
    /\ calls[q].tokenId = calls[p].tokenId
    /\ calls[q].voterId = calls[p].voterId

\* the identifiers of voters and tokens
Identifiers == VoterIds \cup TokenIdArgs \cup {NonceOf(k) : k \in 1..MaxTokens}

\* C5 as stated: the field set of every vote row is exactly
\* {electionId, candidateId, createdAt, serverSignature}.
C5_Original ==
  \A i \in DOMAIN votes :
    DOMAIN votes[i] = {"electionId", "candidateId", "createdAt", "serverSignature"}

\* C5 amended: the field set of every vote row is exactly {electionId,
\* candidateId, createdAt, serverSig, version, meta} with version 1 and an
\* empty meta, and no field holds a voter or token identifier.
C5_VoteFields ==
  \A i \in DOMAIN votes :
    /\ DOMAIN votes[i] =
         {"electionId", "candidateId", "createdAt", "serverSig", "version", "meta"}
    /\ votes[i].version = 1
    /\ votes[i].meta = EmptyDoc
    /\ {votes[i].electionId, votes[i].candidateId, votes[i].serverSig}
         \cap Identifiers = {}

\* C5 witness: a submit has committed and its vote row is stored
C5_Witness ==
  /\ Len(votes) >= 1
  /\ \E p \in Procs : Done(p) /\ calls[p].result = "OK"

\* C6 as stated: a commit stores no value in the vote row that it also
\* stores in the redeeming voter's row or in the consumed token's row.
C6_NoJoinableKey ==
  [][\A p \in Procs :
       (calls[p].pc = "voterMarked" /\ calls'[p].result = "OK")
         => /\ votes'[Len(votes')].createdAt # voters'[calls[p].voterId].updatedAt
            /\ votes'[Len(votes')].createdAt # votingTokens'[calls[p].tokenIdx].updatedAt]_vars

\* C7: a token row has exactly the fields tokenId, electionId, spent,
\* expiresAt, createdAt, updatedAt, version and meta.nonce, none of them a
\* voter identifier, and the steps of issueToken write nothing but the new
\* token row.
C7_TokenWithoutVoter ==
  /\ [](\A k \in DOMAIN votingTokens :
          /\ DOMAIN votingTokens[k] =
               {"tokenId", "electionId", "spent", "expiresAt", "createdAt",
                "updatedAt", "version", "meta"}
          /\ DOMAIN votingTokens[k].meta = {"nonce"}
          /\ {votingTokens[k].tokenId, votingTokens[k].electionId,
              votingTokens[k].meta.nonce} \cap VoterIds = {})
  /\ [][issue' # issue =>
          /\ UNCHANGED <<voters, votes, elections, purged, calls, authVars, adminVars>>
          /\ \A k \in DOMAIN votingTokens : votingTokens'[k] = votingTokens[k]]_vars

\* C7 witness: an issue-token request succeeded and its row is stored
C7_Witness ==
  /\ issue.pc = "done" /\ issue.result = "OK"
  /\ issue.tokenIdx \in DOMAIN votingTokens

\* C8 as stated: a request of a voter whose hasVoted was already true is
\* answered ALREADY_VOTED, issue-token and submit alike.
C8_Original ==
  /\ (issue.pc = "done" /\ issue.votedAtStart) => issue.result = "ALREADY_VOTED"
  /\ \A p \in Procs : (Done(p) /\ calls[p].voted0) => calls[p].result = "ALREADY_VOTED"

\* C8 amended: an issue-token request of a voter whose hasVoted was already
\* true never inserts a token and is answered ELECTION_NOT_OPEN when the
\* election is closed or finalized and ALREADY_VOTED otherwise; a submit of
\* such a voter is answered ALREADY_VOTED.
C8_Ineligible ==
  /\ issue.votedAtStart => issue.pc # "loaded"
  /\ (issue.pc = "done" /\ issue.votedAtStart) =>
       issue.result = IF issue.closedAtStart THEN "ELECTION_NOT_OPEN"
                      ELSE "ALREADY_VOTED"
  /\ \A p \in Procs : (Done(p) /\ calls[p].voted0) => calls[p].result = "ALREADY_VOTED"

\* C8 witness: after a commit the voter's next submit and next issue-token
\* request were both answered ALREADY_VOTED
C8_Witness ==
  /\ issue.pc = "done" /\ issue.votedAtStart /\ issue.result = "ALREADY_VOTED"
  /\ \E p \in Procs : Done(p) /\ calls[p].voted0 /\ calls[p].result = "ALREADY_VOTED"

\* submit p repeats submit p - 1 with identical arguments
SameArguments(p) ==
  /\ calls[p].voterId = calls[p - 1].voterId
  /\ calls[p].tokenId = calls[p - 1].tokenId
  /\ calls[p].electionId = calls[p - 1].electionId
  /\ calls[p].candidateId = calls[p - 1].candidateId
  /\ calls[p].nonce = calls[p - 1].nonce

\* C9 as stated: when a submit that committed is repeated with identical
\* arguments, the second call is answered TOKEN_ALREADY_USED.
C9_Original ==
  \A p \in Procs \ {1} :
    (Done(p - 1) /\ Done(p) /\ SameArguments(p) /\ calls[p - 1].result = "OK")
      => calls[p].result = "TOKEN_ALREADY_USED"

\* C9 amended: when a submit that committed is repeated with identical
\* arguments, the second call is answered ALREADY_VOTED.
C9_DoubleSubmit ==
  \A p \in Procs \ {1} :
    (Done(p - 1) /\ Done(p) /\ SameArguments(p) /\ calls[p - 1].result = "OK")
      => calls[p].result = "ALREADY_VOTED"

\* C9 witness: a submit carrying the nonce committed and its repetition was
\* answered
C9_Witness ==
  \E p \in Procs \ {1} :
    /\ Done(p - 1) /\ Done(p) /\ SameArguments(p)
    /\ calls[p - 1].result = "OK"
    /\ calls[p].nonce # NoNonce
    /\ calls[p].result = "ALREADY_VOTED"

\* submit p is about to run its read checks with an eligible voter, a
\* matching nonce (or none), an active candidate and a stored token of the
\* named election whose expiresAt is before the time the call read
PastExpiry(p) ==
  LET c == calls[p]
      k == FindTokenIdx(c.tokenId, c.electionId)
  IN /\ c.pc = "started"
     /\ c.voterId \in DOMAIN voters
     /\ voters[c.voterId].status = "active"
     /\ ~voters[c.voterId].hasVoted
     /\ k # 0
     /\ votingTokens[k].expiresAt < c.now
     /\ c.nonce \in {NoNonce, votingTokens[k].meta.nonce}
     /\ FindActiveCandidate(c.electionId, c.candidateId)

\* C10 as stated: a submit of an eligible voter naming a token whose
\* expiresAt is in the past, with matching election and nonce and an active
\* candidate, is answered TOKEN_EXPIRED.
C10_Original ==
  [][\A p \in Procs :
       (PastExpiry(p) /\ calls'[p].pc # "started")
         => calls'[p].result = "TOKEN_EXPIRED"]_vars

\* C10 amended: such a submit is answered TOKEN_EXPIRED when the token row
\* is still stored and unspent.
C10_Expired ==
  [][\A p \in Procs :
       (/\ PastExpiry(p)
        /\ ~votingTokens[FindTokenIdx(calls[p].tokenId, calls[p].electionId)].spent
        /\ calls'[p].pc # "started")
         => calls'[p].result = "TOKEN_EXPIRED"]_vars

\* C10 witness: a submit naming an unspent token past its expiry was
\* answered TOKEN_EXPIRED
C10_Witness ==
  \E p \in Procs :
    /\ Done(p) /\ calls[p].result = "TOKEN_EXPIRED"
    /\ FindTokenIdx(calls[p].tokenId, calls[p].electionId) # 0
    /\ votingTokens[FindTokenIdx(calls[p].tokenId, calls[p].electionId)].expiresAt < now
    /\ ~votingTokens[FindTokenIdx(calls[p].tokenId, calls[p].electionId)].spent

\* what the documented order of the voter checks of issue determines for
\* voter v in the current state
IssueOrderOutcome(v) ==
  IF v \notin DOMAIN voters THEN "VOTER_NOT_FOUND"
  ELSE IF voters[v].status # "active" THEN "VOTER_INACTIVE"
  ELSE IF voters[v].hasVoted THEN "ALREADY_VOTED"
  ELSE "pass"

\* C11: issue checks its preconditions in a fixed order and the first
\* failure wins: a request for an election that is not open ends with
\* ELECTION_NOT_OPEN whatever the voter is; otherwise a missing voter gives
\* VOTER_NOT_FOUND, otherwise a voter that is not active VOTER_INACTIVE,
\* otherwise a voter that has voted ALREADY_VOTED, otherwise a token is
\* issued and the answer is OK.  Each condition is taken as the request
\* reads it.
C11_IssueOrder ==
  [][ /\ (issue.pc \in {"idle", "done"} /\ issue' # issue) =>
           IF isElectionOpen(issue'.electionId)
           THEN issue'.pc = "gated"
           ELSE issue'.pc = "done" /\ issue'.result = "ELECTION_NOT_OPEN"
      /\ (issue.pc = "gated" /\ issue' # issue) =>
           IF IssueOrderOutcome(issue.voterId) = "pass"
           THEN issue'.pc = "loaded"
           ELSE /\ issue'.pc = "done"
                /\ issue'.result = IssueOrderOutcome(issue.voterId)
      /\ (issue.pc = "loaded" /\ issue' # issue) =>
           /\ issue'.pc = "done"
           /\ issue'.result = "OK"
           /\ Len(votingTokens') = Len(votingTokens) + 1 ]_vars

\* C11 witness: a request for the re-opened election e1 passed the gate,
\* found its voter, found it active and was refused because it had voted
C11_Witness ==
  /\ issue.pc = "done"
  /\ issue.result = "ALREADY_VOTED"
  /\ issue.electionId = "e1"
  /\ "e1" \in DOMAIN elections
  /\ elections["e1"].status = "open"
  /\ voters[issue.voterId].hasVoted
  /\ \E v \in DOMAIN voters : voters[v].status # "active"

\* C12: a step of an issue request changes no voter, vote or election row
\* and removes or rewrites no token row; the step that answers OK appends
\* exactly one token row, unspent, scoped to the requested election, whose
\* expiresAt is the time the request read the clock plus five minutes;
\* every other step of the request, a refusal included, leaves the token
\* rows as they are.
C12_IssueEffect ==
  [][ issue' # issue =>
        /\ voters' = voters
        /\ votes' = votes
        /\ elections' = elections
        /\ purged' = purged
        /\ issue'.pc = "loaded" => issue'.now = now
        /\ IF issue'.pc = "done" /\ issue'.result = "OK"
           THEN /\ Len(votingTokens') = Len(votingTokens) + 1
                /\ SubSeq(votingTokens', 1, Len(votingTokens)) = votingTokens
                /\ votingTokens'[Len(votingTokens')].spent = FALSE
                /\ votingTokens'[Len(votingTokens')].electionId = issue'.electionId
                /\ votingTokens'[Len(votingTokens')].expiresAt
                     = issue.now + 5 * 60 * 1000
           ELSE votingTokens' = votingTokens ]_vars

\* C12 witness: a second token was issued, for election e2 and after the
\* clock had advanced, while the first token row was already spent
C12_Witness ==
  /\ issue.pc = "done"
  /\ issue.result = "OK"
  /\ issue.electionId = "e2"
  /\ issue.tokenIdx = 2
  /\ Len(votingTokens) = 2
  /\ votingTokens[1].spent
  /\ votingTokens[2].electionId = "e2"
  /\ votingTokens[2].createdAt > 0
  /\ votingTokens[2].expiresAt = votingTokens[2].createdAt + 5 * 60 * 1000

\* the token row a submit with call p's arguments finds, as a set of indices
TokenRowsOf(p) ==
  {k \in DOMAIN votingTokens \ purged :
     /\ votingTokens[k].tokenId = calls[p].tokenId
     /\ votingTokens[k].electionId = calls[p].electionId}

\* the failure kind the documented validation order determines for call p
\* in the current state, "pass" when no validation fails
SubmitOrderOutcome(p) ==
  LET c == calls[p]
  IN IF c.voterId \notin DOMAIN voters THEN "VOTER_NOT_FOUND"
     ELSE IF voters[c.voterId].status # "active" THEN "VOTER_INACTIVE"
     ELSE IF voters[c.voterId].hasVoted THEN "ALREADY_VOTED"
     ELSE IF TokenRowsOf(p) = {} THEN "INVALID_VOTE_TOKEN"
     ELSE IF \E k \in TokenRowsOf(p) : votingTokens[k].spent
          THEN "TOKEN_ALREADY_USED"
     ELSE IF \E k \in TokenRowsOf(p) : votingTokens[k].expiresAt <= c.now
          THEN "TOKEN_EXPIRED"
     ELSE IF c.nonce # NoNonce
             /\ \E k \in TokenRowsOf(p) : votingTokens[k].meta.nonce # c.nonce
          THEN "TOKEN_NONCE_MISMATCH"
     ELSE IF [electionId |-> c.electionId, candidateId |-> c.candidateId,
              status |-> "active"] \notin candidates
          THEN "INVALID_CANDIDATE"
     ELSE "pass"

\* C13: submit evaluates its validations in the fixed order voter missing,
\* voter not active, voter has voted, no token for (tokenId, electionId),
\* token spent, token expired, nonce differs, candidate not active in the
\* election; for every combination of these conditions the request is
\* answered with the kind of the earliest failing one, and goes on to its
\* writes only when none fails.
C13_SubmitOrder ==
  [][ \A p \in Procs :
        (calls[p].pc = "started" /\ calls'[p] # calls[p]) =>
          IF SubmitOrderOutcome(p) = "pass"
          THEN calls'[p].pc = "validated"
          ELSE /\ calls'[p].pc = "done"
               /\ calls'[p].result = SubmitOrderOutcome(p) ]_vars

\* C13 witness: a submit whose token was expired, whose nonce differed from
\* the stored one and whose candidate was not active was answered
\* TOKEN_EXPIRED, the earliest of the three
C13_Witness ==
  \E p \in Procs :
    /\ Done(p)
    /\ calls[p].result = "TOKEN_EXPIRED"
    /\ calls[p].nonce # NoNonce
    /\ \E k \in TokenRowsOf(p) : votingTokens[k].meta.nonce # calls[p].nonce
    /\ ~FindActiveCandidate(calls[p].electionId, calls[p].candidateId)

\* call p supplies a nonce that differs from the one stored with the token
\* row it names
NonceDiffers(p) ==
  /\ calls[p].nonce # NoNonce
  /\ \E k \in TokenRowsOf(p) : votingTokens[k].meta.nonce # calls[p].nonce

\* C14 as stated: a submit that supplies a nonce different from the stored
\* one is answered TOKEN_NONCE_MISMATCH.
C14_Original ==
  [][ \A p \in Procs :
        (calls[p].pc = "started" /\ calls'[p] # calls[p] /\ NonceDiffers(p)) =>
          /\ calls'[p].pc = "done"
          /\ calls'[p].result = "TOKEN_NONCE_MISMATCH" ]_vars

\* C14: a submit is answered TOKEN_NONCE_MISMATCH exactly when it supplies
\* a nonce that differs from the stored one and every validation before
\* the nonce check (voter, token row, spent, expiry) passes; that answer
\* leaves the token rows unchanged and the token unspent.  A submit that
\* supplies a differing nonce never commits, whatever it is answered; a
\* submit that commits supplied no nonce or the stored one.
C14_NonceBinding ==
  [][ \A p \in Procs :
        /\ (calls[p].pc = "started" /\ calls'[p] # calls[p]) =>
             /\ (calls'[p].result = "TOKEN_NONCE_MISMATCH")
                  <=> /\ NonceDiffers(p)
                      /\ SubmitOrderOutcome(p) \notin
                           {"VOTER_NOT_FOUND", "VOTER_INACTIVE", "ALREADY_VOTED",
                            "INVALID_VOTE_TOKEN", "TOKEN_ALREADY_USED",
                            "TOKEN_EXPIRED"}
             /\ (calls'[p].result = "TOKEN_NONCE_MISMATCH") =>
                  /\ votingTokens' = votingTokens
                  /\ \A k \in TokenRowsOf(p) : ~votingTokens'[k].spent
             /\ NonceDiffers(p) => calls'[p].pc = "done"
        /\ (calls'[p].result = "OK" /\ calls[p].result # "OK") =>
             ~NonceDiffers(p) ]_vars

\* C14 witness: one submit committed with the token id alone, and a later
\* submit of an eligible voter with a fresh token and a wrong nonce was
\* answered TOKEN_NONCE_MISMATCH, its token still unspent
C14_Witness ==
  \E p, q \in Procs :
    /\ Done(p) /\ calls[p].result = "OK" /\ calls[p].nonce = NoNonce
    /\ Done(q) /\ calls[q].result = "TOKEN_NONCE_MISMATCH"
    /\ NonceDiffers(q)
    /\ \A k \in TokenRowsOf(q) : ~votingTokens[k].spent

\* the stored token rows with call p's token id that were issued for an
\* election other than the one call p names
OtherElectionRows(p) ==
  {k \in DOMAIN votingTokens \ purged :
     /\ votingTokens[k].tokenId = calls[p].tokenId
     /\ votingTokens[k].electionId # calls[p].electionId}

\* C15 as stated: a submit naming a token id together with an election
\* other than the one the token was issued for is answered
\* INVALID_VOTE_TOKEN.
C15_Original ==
  [][ \A p \in Procs :
        (calls[p].pc = "started" /\ calls'[p] # calls[p]
           /\ OtherElectionRows(p) # {}) =>
          /\ calls'[p].pc = "done"
          /\ calls'[p].result = "INVALID_VOTE_TOKEN" ]_vars

\* C15: a submit naming a token id together with an election other than
\* the one the token was issued for never commits and changes no token
\* row; it is answered INVALID_VOTE_TOKEN when its voter passes the voter
\* checks and with the failing voter check's kind otherwise.  A commit
\* spends exactly one token row, the one with the submit's token id, and
\* appends one vote row whose electionId is that token's and whose
\* candidateId is an active candidate of that election.
C15_ElectionScoping ==
  [][ \A p \in Procs :
        /\ (calls[p].pc = "started" /\ calls'[p] # calls[p]
              /\ OtherElectionRows(p) # {}) =>
             /\ calls'[p].pc = "done"
             /\ votingTokens' = votingTokens
             /\ calls'[p].result =
                  IF SubmitOrderOutcome(p) \in
                       {"VOTER_NOT_FOUND", "VOTER_INACTIVE", "ALREADY_VOTED"}
                  THEN SubmitOrderOutcome(p)
                  ELSE "INVALID_VOTE_TOKEN"
        /\ (calls'[p].result = "OK" /\ calls[p].result # "OK") =>
             /\ Len(votes') = Len(votes) + 1
             /\ \E k \in DOMAIN votingTokens :
                  /\ ~votingTokens[k].spent
                  /\ votingTokens'[k].spent
                  /\ votingTokens[k].tokenId = calls[p].tokenId
                  /\ votingTokens[k].electionId = calls[p].electionId
                  /\ votes'[Len(votes')].electionId = votingTokens[k].electionId
                  /\ \A j \in DOMAIN votingTokens \ {k} :
                       votingTokens'[j] = votingTokens[j]
             /\ [electionId |-> votes'[Len(votes')].electionId,
                 candidateId |-> votes'[Len(votes')].candidateId,
                 status |-> "active"] \in candidates ]_vars

\* C15 witness: a submit of an eligible voter that named an unspent token
\* of election e1 together with election e2 was answered
\* INVALID_VOTE_TOKEN, the token still unspent, after another submit had
\* committed a vote
C15_Witness ==
  \E p \in Procs :
    /\ Done(p)
    /\ calls[p].result = "INVALID_VOTE_TOKEN"
    /\ calls[p].electionId = "e2"
    /\ ~calls[p].voted0
    /\ \E k \in OtherElectionRows(p) :
         ~votingTokens[k].spent /\ votingTokens[k].expiresAt > now
    /\ Len(votes) = 1

\* call p commits in this step
Commits(p) ==
  /\ calls[p].pc = "voterMarked"
  /\ calls'[p].pc = "done"
  /\ calls'[p].result = "OK"

\* C16: hasVoted is monotonic: no step removes a voter row or takes
\* hasVoted from true to false, and a step takes a voter's hasVoted from
\* false to true only if it is the commit of a submit of that voter, which
\* also appends the vote row; so the flag changes at most once per voter.
C16_HasVotedMonotonic ==
  [][ \A v \in DOMAIN voters :
        /\ v \in DOMAIN voters'
        /\ voters[v].hasVoted => voters'[v].hasVoted
        /\ (~voters[v].hasVoted /\ voters'[v].hasVoted) =>
             \E p \in Procs :
               /\ Commits(p)
               /\ calls[p].voterId = v
               /\ Len(votes') = Len(votes) + 1 ]_vars

\* C16 witness: a voter's flag is set, and a concurrent submit of the same
\* voter that was re-run after a write conflict was refused and left the
\* flag as it was
C16_Witness ==
  \E p, q \in Procs :
    /\ p # q
    /\ Done(p) /\ calls[p].result = "OK"
    /\ Done(q) /\ calls[q].result = "ALREADY_VOTED"
    /\ calls[q].retried
    /\ calls[q].voterId = calls[p].voterId
    /\ voters[calls[p].voterId].hasVoted
    /\ Len(votes) = 1

\* C17: token spend is single and one-way: no step takes a token row's
\* spent from true to false, a row that appears is unspent, and a step
\* takes spent from false to true only if it is the commit of a submit
\* that named that token, which also appends the vote row; a refused
\* submit, an aborted transaction and an issue request never change it.
C17_SpendOneWay ==
  [][ /\ \A k \in DOMAIN votingTokens :
           /\ k \in DOMAIN votingTokens'
           /\ votingTokens[k].spent => votingTokens'[k].spent
           /\ (~votingTokens[k].spent /\ votingTokens'[k].spent) =>
                \E p \in Procs :
                  /\ Commits(p)
                  /\ votingTokens[k].tokenId = calls[p].tokenId
                  /\ votingTokens[k].electionId = calls[p].electionId
                  /\ Len(votes') = Len(votes) + 1
      /\ \A k \in DOMAIN votingTokens' \ DOMAIN votingTokens :
           ~votingTokens'[k].spent ]_vars

\* C17 witness: one submit committed and spent its token; a concurrent
\* submit of another voter naming the same token had its transaction
\* aborted, was re-run and refused; a token issued afterwards is unspent
C17_Witness ==
  \E p, q \in Procs :
    /\ Done(p) /\ calls[p].result = "OK"
    /\ Done(q) /\ calls[q].result = "TOKEN_ALREADY_USED"
    /\ calls[q].retried
    /\ calls[q].tokenId = calls[p].tokenId
    /\ Len(votingTokens) = 2
    /\ Cardinality({k \in DOMAIN votingTokens : votingTokens[k].spent}) = 1
    /\ issue.pc = "done" /\ issue.result = "OK"

\* C18: votes are append-only: every step keeps the vote rows it finds,
\* unchanged and in place, and adds at most one; a row is added exactly by
\* the commit step of a submit, so the number of vote rows is the number
\* of submits answered OK.  Issue, registration, the admin election
\* switches and refused submits leave the votes as they are.
C18_VotesAppendOnly ==
  [][ /\ Len(votes') >= Len(votes)
      /\ Len(votes') <= Len(votes) + 1
      /\ SubSeq(votes', 1, Len(votes)) = votes
      /\ (Len(votes') = Len(votes) + 1) <=> (\E p \in Procs : Commits(p))
      /\ Len(votes') = Cardinality({p \in Procs : calls'[p].result = "OK"}) ]_vars

\* C18 witness: a vote row is stored and election e1 has been finalized
\* after the vote was committed: the snapshot counts the vote, and the row
\* is still in votes
C18_Witness ==
  /\ Len(votes) = 1
  /\ votes[1].electionId = "e1"
  /\ "e1" \in DOMAIN elections
  /\ elections["e1"].status = "finalized"
  /\ Len(electionSnapshots) = 1
  /\ electionSnapshots[1].candidateTotals = [c \in {"c1"} |-> 1]
  /\ Len(votingTokens) = 2

\* C19: the election gate answers true exactly when no election record is
\* stored for the election or the record's status is open, and false for
\* the statuses closed and finalized.  The answer an issue request gets
\* from the gate is that value, and the step that asks changes no stored
\* row, so asking again without an admin action in between gives the same
\* answer.
C19_ElectionGate ==
  [][ (issue.pc \in {"idle", "done"} /\ issue' # issue) =>
        /\ issue'.closedAtStart =
             ~(\/ issue'.electionId \notin DOMAIN elections
               \/ elections[issue'.electionId].status = "open")
        /\ (/\ issue'.electionId \in DOMAIN elections
            /\ elections[issue'.electionId].status \in {"closed", "finalized"})
             => (issue'.pc = "done" /\ issue'.result = "ELECTION_NOT_OPEN")
        /\ issue'.closedAtStart <=> (issue'.result = "ELECTION_NOT_OPEN")
        /\ elections' = elections
        /\ voters' = voters
        /\ votingTokens' = votingTokens
        /\ votes' = votes ]_vars

\* C19 witness: the gate refused a request for election e1, whose record
\* is finalized, while election e2 has no record and a token for it has
\* been issued
C19_Witness ==
  /\ issue.pc = "done"
  /\ issue.result = "ELECTION_NOT_OPEN"
  /\ issue.electionId = "e1"
  /\ "e1" \in DOMAIN elections
  /\ elections["e1"].status = "finalized"
  /\ "e2" \notin DOMAIN elections
  /\ \E k \in DOMAIN votingTokens : votingTokens[k].electionId = "e2"

\* the record of election e says closed or finalized
GateShut(e) ==
  /\ e \in DOMAIN elections
  /\ elections[e].status \in {"closed", "finalized"}

\* C20: closing gates issuance: a closeElection or finalizeElection step
\* leaves the election's record closed or finalized, and an openElection
\* step leaves it open; an issue request that reads the gate while the
\* record is closed or finalized is answered ELECTION_NOT_OPEN and never
\* inserts a token (every inserted token belongs to a request that found
\* the gate open); an issue request that reads the gate once the record
\* is open again passes it, and for an eligible voter goes on to insert a
\* token and answer OK.
C20_CloseGatesIssue ==
  [][ /\ \A e \in AdminElectionIds :
           /\ (closeElection(e) \/ finalizeElection(e)) => GateShut(e)'
           /\ openElection(e) =>
                (e \in DOMAIN elections' /\ elections'[e].status = "open")
      /\ (issue.pc \in {"idle", "done"} /\ issue' # issue) =>
           /\ GateShut(issue'.electionId) =>
                /\ issue'.pc = "done"
                /\ issue'.result = "ELECTION_NOT_OPEN"
                /\ issue'.tokenIdx = 0
                /\ votingTokens' = votingTokens
           /\ (/\ issue'.electionId \in DOMAIN elections
               /\ elections[issue'.electionId].status = "open")
                => issue'.pc = "gated"
      /\ (issue.pc = "gated" /\ issue' # issue
            /\ IssueOrderOutcome(issue.voterId) = "pass") =>
           issue'.pc = "loaded"
      /\ Len(votingTokens') > Len(votingTokens) =>
           /\ issue.pc = "loaded"
           /\ ~issue.closedAtStart
           /\ issue'.pc = "done"
           /\ issue'.result = "OK" ]_vars

\* C20 witness: an eligible voter's request for election e1 was refused
\* at the gate because the record says closed, while a token issued for
\* e1 before the close is stored
C20_Witness ==
  /\ issue.pc = "done"
  /\ issue.result = "ELECTION_NOT_OPEN"
  /\ issue.electionId = "e1"
  /\ issue.tokenIdx = 0
  /\ GateShut("e1")
  /\ elections["e1"].status = "closed"
  /\ IssueOrderOutcome(issue.voterId) = "pass"
  /\ \E k \in DOMAIN votingTokens : votingTokens[k].electionId = "e1"

\* C21: with requests served one after another, every stored counter row
\* agrees with an observer who counts the attempts of the subject by the
\* time of their requests: the count is the number of attempts since the
\* window was opened, windowEndsAt is the time of the attempt that opened
\* it plus the window duration, and the first attempt at or after
\* windowEndsAt opened a new window with count 1
C21_CounterCorrect ==
  AuthQuiet =>
    /\ \A ph \in DOMAIN otp_attempts :
         /\ ph \in DOMAIN otpSeen
         /\ otp_attempts[ph].count = otpSeen[ph].n
         /\ otp_attempts[ph].windowEndsAt = otpSeen[ph].start + OTP_WINDOW_MS
    /\ \A v \in DOMAIN login_attempts :
         /\ v \in DOMAIN loginSeen
         /\ login_attempts[v].count = loginSeen[v].n
         /\ login_attempts[v].windowEndsAt = loginSeen[v].start + LOGIN_WINDOW_MS

\* three sends counted in a window that a send at or after the end of the
\* first window opened, next to two failed logins counted the same way
C21_Witness ==
  /\ AuthQuiet
  /\ "ph2" \in DOMAIN otp_attempts
  /\ otp_attempts["ph2"].count = 3
  /\ otp_attempts["ph2"].createdAt >= OTP_WINDOW_MS
  /\ "v2" \in DOMAIN login_attempts
  /\ login_attempts["v2"].count = 2
  /\ login_attempts["v2"].createdAt >= LOGIN_WINDOW_MS

\* C22 as stated: with concurrent sendOtp requests for one phone, all of
\* them received inside the first window, the stored count equals the number
\* of sends that passed the gate once no request is in progress
C22_NoAttemptLost ==
  (AuthQuiet /\ now < OTP_WINDOW_MS) =>
    \A ph \in DOMAIN otpSeen :
      /\ ph \in DOMAIN otp_attempts
      /\ otp_attempts[ph].count = otpSeen[ph].n

\* login request l is answered in this step
LoginAnswered(l) ==
  logins'[l] # logins[l] /\ logins'[l].pc = "done"

\* the login_attempts row of voter v exists, its window ends later than
\* the current time and it counts at least LOGIN_MAX_FAILED failures
LockedNow(v) ==
  /\ v \in DOMAIN login_attempts
  /\ login_attempts[v].windowEndsAt > now
  /\ login_attempts[v].count >= LOGIN_MAX_FAILED

\* login request l arrives in this step
LoginArrives(l) ==
  logins'[l] # logins[l] /\ logins[l].pc \in {"idle", "done"}

\* C23: a login request with a non-blank voterId and password is answered
\* ACCOUNT_LOCKED exactly when the voterId's row locks it at the moment it
\* arrives (a request with a blank field is answered VALIDATION_ERROR before
\* the row is read); no later step of a login gives that answer, and the
\* locked answer is the request's only step: it verifies no password,
\* issues no credential and leaves every stored row as it was, whether or
\* not the supplied password is correct
C23_LockoutGate ==
  [][\A l \in AuthCalls :
       /\ (LoginArrives(l) /\ logins'[l].voterId # "" /\ logins'[l].password # "") =>
            (logins'[l].result = "ACCOUNT_LOCKED" <=> LockedNow(logins'[l].voterId))
       /\ (LoginArrives(l) /\ logins'[l].password = "") =>
            logins'[l].result = "VALIDATION_ERROR"
       /\ (LoginAnswered(l) /\ logins'[l].result = "ACCOUNT_LOCKED") =>
            /\ logins[l].pc \in {"idle", "done"}
            /\ LockedNow(logins'[l].voterId)
            /\ login_attempts' = login_attempts
            /\ loginSeen' = loginSeen
            /\ voters' = voters
            /\ otp_attempts' = otp_attempts]_vars

\* a login with the correct password answered ACCOUNT_LOCKED while the row
\* counts five failures in a running window
C23_Witness ==
  \E l \in AuthCalls :
    /\ logins[l].pc = "done"
    /\ logins[l].result = "ACCOUNT_LOCKED"
    /\ verifyPassword(logins[l].password)
    /\ LockedNow(logins[l].voterId)
    /\ login_attempts[logins[l].voterId].count = LOGIN_MAX_FAILED

\* C24 as stated: with concurrent login requests for one voterId, all of
\* them received inside the first lockout window, at most LOGIN_MAX_FAILED
\* requests since the last successful login have failed the password check
C24_GuessBound ==
  (AuthQuiet /\ now < LOGIN_WINDOW_MS) =>
    \A v \in DOMAIN loginSeen : loginSeen[v].n <= LOGIN_MAX_FAILED

\* C25 as stated: with concurrent sendOtp requests for one phone, all of
\* them received inside the first window, at most OTP_MAX_PER_WINDOW codes
\* are generated for the phone
C25_OtpLimit ==
  (AuthQuiet /\ now < OTP_WINDOW_MS) =>
    \A ph \in DOMAIN otpSeen : otpSeen[ph].n <= OTP_MAX_PER_WINDOW

\* the transaction of submit p ends in this step without a commit for a
\* storage-level reason: a write conflict, after which the callback is run
\* again or the call gives up, or a failure of the store
StorageAbortStep(p) ==
  /\ calls[p].pc \in {"validated", "tokenMarked", "voteInserted", "voterMarked"}
  /\ \/ calls'[p].pc = "started"
     \/ calls'[p].pc = "done" /\ calls'[p].result = "INTERNAL_ERROR"

\* what is visible in the store is what committed submits wrote: as many
\* spent tokens and voters with hasVoted as vote rows
VisibleIsCommitted ==
  /\ Cardinality({k \in DOMAIN votingTokens : votingTokens[k].spent}) = Len(votes)
  /\ Cardinality({v \in DOMAIN voters : voters[v].hasVoted}) = Len(votes)

\* C26: when the transaction of a submit ends without a commit for a
\* storage-level reason, the step changes no token, vote or voter row and
\* leaves nothing of the submit's three writes visible: the spent tokens,
\* the votes and the voters with hasVoted are those of committed submits. A
\* later run of the same submit with the same token can therefore commit
\* (the witness)
C26_RetrySafe ==
  [][\A p \in Procs :
       StorageAbortStep(p) =>
         /\ votingTokens' = votingTokens
         /\ votes' = votes
         /\ voters' = voters
         /\ VisibleIsCommitted']_vars

\* a submit whose transaction lost a write conflict and was run again
\* committed with the same token, after the competing submit for that token
\* was failed by the store; one vote exists
C26_Witness ==
  \E p \in Procs, q \in Procs :
    /\ p # q
    /\ Done(p) /\ calls[p].result = "OK" /\ calls[p].retried
    /\ Done(q) /\ calls[q].result = "INTERNAL_ERROR"
    /\ calls[q].tokenId = calls[p].tokenId
    /\ Len(votes) = 1
    /\ voters[calls[p].voterId].hasVoted

\* submit p is answered in this step
SubmitAnswered(p) == calls[p].pc # "done" /\ calls'[p].pc = "done"

\* submit p commits in this step: its token becomes spent, its vote row is
\* appended and its voter gets hasVoted, all in the one step
CommitStep(p) ==
  /\ calls[p].pc = "voterMarked"
  /\ Len(votes') = Len(votes) + 1
  /\ votes'[Len(votes')] = calls[p].vote[1]
  /\ ~votingTokens[calls[p].tokenIdx].spent
  /\ votingTokens'[calls[p].tokenIdx].spent
  /\ ~voters[calls[p].voterId].hasVoted
  /\ voters'[calls[p].voterId].hasVoted

\* C27: every submit that has started is eventually answered, provided the
\* store answers each of its operations; it is answered once, and the
\* answer is OK exactly when the answering step commits the token spend, the
\* vote and the hasVoted flag together; every other answer comes with a step
\* that changes no token, vote or voter row, and a step that changes one of
\* them is the commit of a submit answered OK
C27_SingleOutcome ==
  /\ [][\A p \in Procs :
          /\ SubmitAnswered(p) =>
               IF calls'[p].result = "OK"
               THEN CommitStep(p)
               ELSE votingTokens' = votingTokens /\ votes' = votes /\ voters' = voters
          /\ calls[p].pc = "done" => calls'[p] = calls[p]]_vars
  /\ [][(votes' # votes \/ voters' # voters
          \/ \E k \in DOMAIN votingTokens : votingTokens'[k] # votingTokens[k]) =>
          \E p \in Procs : SubmitAnswered(p) /\ calls'[p].result = "OK"]_vars
  /\ \A p \in Procs : (calls[p].pc \notin {"idle", "done"}) ~> (calls[p].pc = "done")

\* one submit answered OK with its vote committed next to one answered with a
\* failure after its transaction was run again, one vote in the store
C27_Witness ==
  \E p \in Procs, q \in Procs :
    /\ p # q
    /\ Done(p) /\ calls[p].result = "OK"
    /\ Done(q) /\ calls[q].result \notin {"OK", ""} /\ calls[q].retried
    /\ Len(votes) = 1

\* C29 as stated: when a submit commits, the token it consumes is unspent
\* and its expiresAt is later than the time of the commit
C29_RedeemableAtCommit ==
  [][\A p \in Procs :
       (calls[p].pc = "voterMarked" /\ calls'[p].pc = "done"
          /\ calls'[p].result = "OK") =>
         /\ ~votingTokens[calls[p].tokenIdx].spent
         /\ votingTokens[calls[p].tokenIdx].expiresAt > now]_vars

\* C30 as stated: the body of a submit call runs at most once, so no call is
\* ever run again after a write conflict
C30_NoRetry ==
  \A p \in Procs : ~calls[p].retried

\* C31 as stated: with concurrent sendOtp requests for one phone, while the
\* clock is before the stored windowEndsAt no step removes the row, lowers
\* its count or changes its windowEndsAt
C31_MonotonicCount ==
  [][\A ph \in DOMAIN otp_attempts :
       now < otp_attempts[ph].windowEndsAt =>
         /\ ph \in DOMAIN otp_attempts'
         /\ otp_attempts'[ph].count >= otp_attempts[ph].count
         /\ otp_attempts'[ph].windowEndsAt = otp_attempts[ph].windowEndsAt]_vars

\* C32 as stated: no submit commits a vote for an election whose record
\* has status closed or finalized at the time of the commit
C32_NoVoteWhileClosed ==
  [][\A p \in Procs :
       (calls[p].pc = "voterMarked" /\ calls'[p].pc = "done"
          /\ calls'[p].result = "OK" /\ Len(votes') = Len(votes) + 1) =>
         ~(/\ calls[p].electionId \in DOMAIN elections
           /\ elections[calls[p].electionId].status \in {"closed", "finalized"})]_vars

\* the sum of the values of a function with a finite domain
RECURSIVE SumOver(_, _)
SumOver(f, S) ==
  IF S = {} THEN 0
  ELSE LET x == CHOOSE y \in S : TRUE IN f[x] + SumOver(f, S \ {x})

\* the vote rows of election e whose candidate is known in that election
KnownVotes(e) ==
  {i \in DOMAIN votes :
     /\ votes[i].electionId = e
     /\ \E d \in candidates :
          d.electionId = e /\ d.candidateId = votes[i].candidateId}

\* C33 as stated: the candidate vote counts of every stored snapshot add up
\* to the number of vote rows of its election, in every state after the
\* snapshot was stored
C33_SnapshotFinal ==
  \A i \in DOMAIN electionSnapshots :
    LET snap == electionSnapshots[i]
    IN SumOver(snap.candidateTotals, DOMAIN snap.candidateTotals)
         = Cardinality(KnownVotes(snap.electionId))

\* the stored row of the submitting voter exists, is active and has not voted
StoredEligible(p) ==
  /\ calls[p].voterId \in DOMAIN voters
  /\ voters[calls[p].voterId].status = "active"
  /\ ~voters[calls[p].voterId].hasVoted

\* a token row for the submit's tokenId and electionId exists, unspent and
\* not expired at the time the submit read the clock
TokenRedeemable(p) ==
  /\ TokenRowsOf(p) # {}
  /\ \A k \in TokenRowsOf(p) :
       ~votingTokens[k].spent /\ votingTokens[k].expiresAt > calls[p].now

\* C34: a submit with a well-formed body passes its validation exactly when
\* the stored row of the submitting voter is eligible and the token row is
\* redeemable (nonce and candidate being in order), whatever hasVoted value
\* its credential carries and whichever voter the token was issued to; a
\* submit answered OK has spent the token, so that no later submit passes
\* with it
C34_EligibilityRederived ==
  [][\A p \in Procs :
       /\ (calls[p].pc = "started" /\ calls'[p] # calls[p]) =>
            (calls'[p].pc = "validated" <=> (StoredEligible(p) /\ TokenRedeemable(p)))
       /\ (calls[p].pc = "started" /\ calls'[p] # calls[p]
             /\ calls[p].voterId \in DOMAIN voters
             /\ voters[calls[p].voterId].hasVoted) =>
            calls'[p].result = "ALREADY_VOTED" \/ calls'[p].result = "VOTER_INACTIVE"
       /\ (calls[p].pc = "voterMarked" /\ calls'[p].result = "OK") =>
            \A k \in TokenRowsOf(p) : votingTokens'[k].spent]_vars

\* the one token was issued to voter v1; voter v2 redeemed it, and v1's
\* submit with the same token was then answered TOKEN_ALREADY_USED
C34_Witness ==
  /\ Len(votingTokens) = 1
  /\ issue.pc = "done" /\ issue.voterId = "v1" /\ issue.tokenIdx = 1
  /\ calls[1].pc = "done" /\ calls[1].voterId = "v2" /\ calls[1].result = "OK"
  /\ calls[1].tokenId = votingTokens[1].tokenId
  /\ calls[2].pc = "done" /\ calls[2].voterId = "v1"
  /\ calls[2].tokenId = votingTokens[1].tokenId
  /\ calls[2].result = "TOKEN_ALREADY_USED"
  /\ ~voters["v1"].hasVoted
  /\ voters["v2"].hasVoted

\* a registration request receives its answer in this step
RegAnswered(r) == regs[r].pc # "done" /\ regs'[r].pc = "done"

\* C35: a registration whose code was accepted either creates the row of
\* its voterId, which did not exist, or leaves the voters collection as it
\* is and is answered VOTER_ID_TAKEN, also when another registration for
\* the same voterId runs at the same time
C35_VoterIdUnique ==
  [][\A r \in AuthCalls :
       (RegAnswered(r) /\ regs[r].pc \in {"otpValid", "absent"}) =>
         \/ /\ regs'[r].result = "CREATED"
            /\ regs[r].voterId \notin DOMAIN voters
            /\ DOMAIN voters' = DOMAIN voters \cup {regs[r].voterId}
         \/ /\ regs'[r].result = "VOTER_ID_TAKEN"
            /\ voters' = voters]_vars

\* C36: when a login is answered INVALID_CREDENTIALS, the write that
\* records the failure has taken effect: a login_attempts row of that
\* voterId exists afterwards, either opened by this failure with count 1 or
\* with its count raised by one, whatever other logins for the voterId did
\* between this login's read of the row and its write
C36_FailureRecorded ==
  [][\A l \in AuthCalls :
       (LoginAnswered(l) /\ logins'[l].result = "INVALID_CREDENTIALS") =>
         /\ logins[l].voterId \in DOMAIN login_attempts'
         /\ \/ login_attempts'[logins[l].voterId].count = 1
            \/ /\ logins[l].voterId \in DOMAIN login_attempts
               /\ login_attempts'[logins[l].voterId].count =
                    login_attempts[logins[l].voterId].count + 1]_vars

\* the login_attempts row of voter v is at the limit and its window has
\* ended
LockLapsed(v) ==
  /\ v \in DOMAIN login_attempts
  /\ login_attempts[v].count >= LOGIN_MAX_FAILED
  /\ login_attempts[v].windowEndsAt <= now

\* C37: a login answered ACCOUNT_LOCKED leaves the login_attempts row as it
\* is; a well-formed login for an active voter that arrives when the row at
\* the limit has reached its windowEndsAt passes the gate; a login that
\* passed the gate with the correct password is answered with a credential;
\* and a failed login that read a row whose window had ended leaves a row
\* with count 1 and a window of LOGIN_WINDOW_MS from its arrival
C37_LockoutEnds ==
  [][\A l \in AuthCalls :
       /\ (LoginAnswered(l) /\ logins'[l].result = "ACCOUNT_LOCKED") =>
            login_attempts' = login_attempts
       /\ (LoginArrives(l) /\ logins'[l].voterId # "" /\ logins'[l].password # ""
             /\ LockLapsed(logins'[l].voterId)) =>
            logins'[l].pc = "gate"
       /\ (LoginAnswered(l) /\ logins[l].pc # "idle" /\ logins[l].pc # "done"
             /\ verifyPassword(logins[l].password)
             /\ logins[l].voterId \in DOMAIN voters
             /\ voters[logins[l].voterId].status = "active") =>
            logins'[l].result = "OK"
       /\ (LoginAnswered(l) /\ logins'[l].result = "INVALID_CREDENTIALS"
             /\ ~WindowActive(logins[l].attemptDoc, logins[l].now)) =>
            login_attempts'[logins[l].voterId] =
              LoginAttemptDoc(logins[l].voterId, logins[l].now)]_vars

\* one login was answered ACCOUNT_LOCKED; the window of that lockout has
\* ended since, and a failed login after it was recorded in a new window
\* with count 1
C37_Witness ==
  /\ logins[2].pc = "done" /\ logins[2].result = "ACCOUNT_LOCKED"
  /\ logins[1].pc = "done" /\ logins[1].result = "INVALID_CREDENTIALS"
  /\ logins[1].voterId = logins[2].voterId
  /\ logins[1].voterId \in DOMAIN login_attempts
  /\ login_attempts[logins[1].voterId].count = 1
  /\ login_attempts[logins[1].voterId].createdAt >= LOGIN_WINDOW_MS
  /\ logins[1].voterId \notin DOMAIN loginSeen
       \/ loginSeen[logins[1].voterId].n = 1

\* C38: a login that is answered with a credential leaves no login_attempts
\* row of its voterId, and the observer's count of failures starts anew, so
\* that a later ACCOUNT_LOCKED answer takes LOGIN_MAX_FAILED failures made
\* after the successful login
C38_SuccessClears ==
  [][\A l \in AuthCalls :
       /\ (LoginAnswered(l) /\ logins'[l].result = "OK") =>
            /\ logins[l].voterId \notin DOMAIN login_attempts'
            /\ logins[l].voterId \notin DOMAIN loginSeen'
            /\ \A v \in DOMAIN login_attempts' : login_attempts'[v] = login_attempts[v]
       /\ (LoginAnswered(l) /\ logins'[l].result = "ACCOUNT_LOCKED") =>
            /\ logins'[l].voterId \in DOMAIN loginSeen
            /\ loginSeen[logins'[l].voterId].n >= LOGIN_MAX_FAILED]_vars

\* a login of v2 was answered with a credential after the clock had moved,
\* and neither a row nor a counted failure of v2 is left
C38_Witness ==
  /\ logins[1].pc = "done" /\ logins[1].result = "OK"
  /\ logins[1].voterId = "v2"
  /\ "v2" \notin DOMAIN login_attempts
  /\ "v2" \notin DOMAIN loginSeen
  /\ now > 0

\* registration request r arrives in this step
RegArrives(r) == regs'[r] # regs[r] /\ regs[r].pc \in {"idle", "done"}

\* the latest code sent for phoneHash ph has not been accepted yet, is at
\* most OTP_TTL_MS old and is the code the request carries
LatestCodeGood(ph, code) ==
  /\ ph \in DOMAIN otpSent
  /\ ~otpSent[ph].accepted
  /\ now <= otpSent[ph].at + OTP_TTL_MS
  /\ otpSent[ph].code = TrimCode(code)

\* C39: verifyOtp accepts a code exactly when it is the code of the most
\* recent sendOtp for the phoneHash, not older than OTP_TTL_MS and not
\* accepted before; an accepted code is removed from the store; a refused
\* code leaves an unexpired entry as it is; an expired entry is removed by
\* the verifyOtp that finds it
C39_SingleUseLatest ==
  [][\A r \in AuthCalls :
       RegArrives(r) =>
         \A v \in VoterIds, phone \in PhoneArgs \ {""}, code \in CodeArgs :
           registerVerifyOtpWrites(r, v, phone, code) =>
             LET ph == hashPhone(phone)
             IN /\ regs'[r].pc = "otpValid" <=> LatestCodeGood(ph, code)
                /\ regs'[r].pc # "otpValid" <=> regs'[r].result = "INVALID_OTP"
                /\ regs'[r].pc = "otpValid" => ph \notin DOMAIN otpStore'
                /\ (regs'[r].result = "INVALID_OTP" /\ ph \in DOMAIN otpStore) =>
                     IF otpStore[ph].expiresAt < now
                     THEN ph \notin DOMAIN otpStore'
                     ELSE otpStore' = otpStore]_vars

\* two codes were sent for phone p1; the second was accepted for a
\* registration that is still being served, the store holds no code for p1,
\* and the request that followed was answered INVALID_OTP
C39_Witness ==
  /\ "ph1" \in DOMAIN otp_attempts /\ otp_attempts["ph1"].count = 2
  /\ "ph1" \in DOMAIN otpSent /\ otpSent["ph1"].accepted
  /\ otpSent["ph1"].code = "222222"
  /\ "ph1" \notin DOMAIN otpStore
  /\ "ph2" \notin DOMAIN otpSent
  /\ regs[1].pc = "otpValid" /\ regs[1].phoneHash = "ph1"
  /\ regs[2].pc = "done" /\ regs[2].result = "INVALID_OTP"

\* C40: a registration answered VOTER_ID_TAKEN or INVALID_OTP changes no
\* voter row and leaves the code that was pending for its phone in the
\* store: after VOTER_ID_TAKEN the store holds an unexpired code for the
\* request's phoneHash, and after INVALID_OTP every unexpired entry of the
\* store is as it was
C40_FailedRegistrationChangesNothing ==
  [][\A r \in AuthCalls :
       /\ (RegAnswered(r) /\ regs'[r].result = "VOTER_ID_TAKEN") =>
            /\ voters' = voters
            /\ regs[r].phoneHash \in DOMAIN otpStore'
            /\ otpStore'[regs[r].phoneHash].expiresAt >= now
       /\ (RegAnswered(r) /\ regs'[r].result = "INVALID_OTP") =>
            /\ voters' = voters
            /\ \A ph \in DOMAIN otpStore :
                 otpStore[ph].expiresAt >= now =>
                   ph \in DOMAIN otpStore' /\ otpStore'[ph] = otpStore[ph]]_vars

(* --------------------------- specifications -------------------------- *)
\* no request is being served
Quiet ==
  /\ \A q \in Procs : calls[q].pc \in {"idle", "done"}
  /\ issue.pc \in {"idle", "done"}

\* the first submit, with any arguments, while no other request is being served
SubmitFirst(v, t, c, e, n) ==
  /\ Quiet
  /\ SubmitBegin(1, v, t, c, e, n)

\* a client repeats the previous submit with identical arguments
SubmitRetry(p) ==
  /\ Quiet
  /\ p > 1
  /\ LET c == calls[p - 1]
     IN SubmitBegin(p, c.voterId, c.tokenId, c.candidateId, c.electionId, c.nonce)

\* an issue-token request for election e1 that starts while no other request
\* is being served
IssueGateAlone(v) ==
  /\ Quiet
  /\ IssueGate(v, "e1")

\* a well-formed submit (election e1, active candidate c1, no nonce) that may
\* start while other submits are in flight
SubmitBeginRace(p, v, t) ==
  SubmitBegin(p, v, t, "c1", "e1", NoNonce)

\* a well-formed submit that starts while no other request is being served
SubmitBeginPlain(p, v, t) ==
  /\ Quiet
  /\ SubmitBegin(p, v, t, "c1", "e1", NoNonce)

\* an issue-token request for election e1
IssueGateE1(v) == IssueGate(v, "e1")

\* the steps every specification shares
Steps ==
  \/ IssueLoadVoter
  \/ IssueInsert
  \/ \E p \in Procs : SubmitValidate(p)
  \/ \E p \in Procs : SubmitMarkToken(p)
  \/ \E p \in Procs : SubmitInsertVote(p)
  \/ \E p \in Procs : SubmitMarkVoter(p)
  \/ \E p \in Procs : SubmitCommit(p)

\* Spec: requests served one at a time, submits with every argument
\* combination, next to the clock and the TTL index
Next ==
  \/ Steps
  \/ \E v \in VoterIds : IssueGateAlone(v)
  \/ \E v \in VoterIds, t \in TokenIdArgs, c \in CandidateArgs,
        e \in ElectionIds, n \in NonceArgs : SubmitFirst(v, t, c, e, n)
  \/ \E p \in Procs : SubmitRetry(p)
  \/ \E p \in Procs, v \in VoterIds, t \in TokenIdArgs : SubmitBeginPlain(p, v, t)
  \/ Tick
  \/ \E k \in 1..MaxTokens : TTLDelete(k)

Spec == Init /\ [][Next]_vars

\* SpecRace: well-formed submits of two active voters running concurrently
NextRace ==
  \/ Steps
  \/ \E v \in VoterIds : IssueGateE1(v)
  \/ \E p \in Procs, v \in VoterIds, t \in TokenIdArgs : SubmitBeginRace(p, v, t)
  \/ Tick
  \/ \E k \in 1..MaxTokens : TTLDelete(k)

InitRace ==
  /\ Init
  /\ DOMAIN voters = VoterIds
  /\ \A v \in VoterIds : voters[v].status = "active"

SpecRace == InitRace /\ [][NextRace]_vars

\* SpecGate: the admin election switches next to issue-token requests for
\* either election and well-formed submits, the clock standing still
NextGate ==
  \/ Steps
  \/ \E v \in VoterIds, e \in ElectionIds : IssueGate(v, e)
  \/ \E p \in Procs, v \in VoterIds, t \in TokenIdArgs : SubmitBeginPlain(p, v, t)
  \/ \E e \in AdminElectionIds : openElection(e)
  \/ \E e \in AdminElectionIds : closeElection(e)
  \/ \E e \in AdminElectionIds : finalizeElection(e)

SpecGate == Init /\ [][NextGate]_vars

\* SpecIssue: issue-token requests for either election next to the admin
\* election switches, registration, the clock and the submits of one client
NextIssue ==
  \/ Steps
  \/ \E v \in VoterIds, e \in ElectionIds : IssueGate(v, e)
  \/ \E v \in VoterIds, t \in TokenIdArgs : SubmitBeginPlain(1, v, t)
  \/ \E e \in AdminElectionIds : openElection(e)
  \/ \E e \in AdminElectionIds : closeElection(e)
  \/ \E v \in VoterIds : verifyOtpAndCreateVoter(v)
  \/ Tick

\* a code for RegPhone was sent at time 0 and is waiting to be used
InitIssue ==
  /\ InitBase
  /\ otp_attempts = Upsert(<< >>, hashPhone(RegPhone), OtpAttemptDoc(hashPhone(RegPhone), 0))
  /\ otpSeen = Upsert(<< >>, hashPhone(RegPhone), [start |-> 0, n |-> 1])
  /\ otpStore = Upsert(<< >>, hashPhone(RegPhone),
                       [code |-> RegCode, expiresAt |-> OTP_TTL_MS])
  /\ otpSent = Upsert(<< >>, hashPhone(RegPhone),
                      [code |-> RegCode, at |-> 0, accepted |-> FALSE])

SpecIssue == InitIssue /\ [][NextIssue]_vars

\* an issue-token request for either election that starts while no other
\* request is being served
IssueGateQuiet(v, e) ==
  /\ Quiet
  /\ IssueGate(v, e)

\* a later submit, with any arguments, while no other request is being served
SubmitLater(p, v, t, c, e, n) ==
  /\ Quiet
  /\ p > 1
  /\ SubmitBegin(p, v, t, c, e, n)

\* SpecOrder: requests served one at a time; after a first well-formed
\* submit, submits with every argument combination, next to the clock
NextOrder ==
  \/ Steps
  \/ \E v \in VoterIds, e \in ElectionIds : IssueGateQuiet(v, e)
  \/ \E v \in VoterIds, t \in TokenIdArgs : SubmitBeginPlain(1, v, t)
  \/ \E p \in Procs, v \in VoterIds, t \in TokenIdArgs, c \in CandidateArgs,
        e \in ElectionIds, n \in NonceArgs : SubmitLater(p, v, t, c, e, n)
  \/ Tick

SpecOrder == Init /\ [][NextOrder]_vars

\* a sendOtp request, with a blank phone or for one phone, that starts
\* while no other request is being served
sendOtpAlone(phone) ==
  /\ AuthQuiet
  /\ phone # "p1"
  /\ sendOtpRead(1, phone)

\* a login request for the voter who may be active, blocked or unregistered,
\* starting while no other request is being served
loginAlone(pw) ==
  /\ AuthQuiet
  /\ loginRead(1, "v2", pw)

\* the steps of sendOtp after its read
SendSteps ==
  \/ \E s \in AuthCalls : sendOtpWrite(s)
  \/ \E s \in AuthCalls : sendOtpSend(s)

\* the steps of login after its read
LoginSteps ==
  \/ \E l \in AuthCalls : loginFindVoter(l)
  \/ \E l \in AuthCalls : loginRecordFailure(l)
  \/ \E l \in AuthCalls : loginClear(l)

\* SpecCounters: sendOtp and login requests served one at a time, next to
\* the clock and the TTL indexes of both counters
NextCounters ==
  \/ SendSteps
  \/ LoginSteps
  \/ \E phone \in PhoneArgs : sendOtpAlone(phone)
  \/ \E pw \in PasswordArgs : loginAlone(pw)
  \/ TickOtp
  \/ TickLogin
  \/ \E ph \in PhoneHashes : TTLDeleteOtp(ph)
  \/ \E v \in VoterIds : TTLDeleteLogin(v)

SpecCounters == Init /\ [][NextCounters]_vars

\* concurrent sendOtp requests for one phone
sendOtpRace(s) == sendOtpRead(s, "p1")

\* concurrent login requests for one voter
loginRace(l, pw) == loginRead(l, "v1", pw)

\* SpecOtp: sendOtp requests for one phone running concurrently
NextOtp ==
  \/ SendSteps
  \/ \E s \in AuthCalls : sendOtpRace(s)
  \/ TickOtp
  \/ \E ph \in PhoneHashes : TTLDeleteOtp(ph)

SpecOtp == InitRace /\ [][NextOtp]_vars

\* SpecLogin: login requests for one voter running concurrently
NextLogin ==
  \/ LoginSteps
  \/ \E l \in AuthCalls, pw \in PasswordArgs : loginRace(l, pw)
  \/ TickLogin
  \/ \E v \in VoterIds : TTLDeleteLogin(v)

SpecLogin == InitRace /\ [][NextLogin]_vars

\* SpecAbort: well-formed submits of two active voters running concurrently
\* against a store that may fail a transaction, the clock standing still
NextAbort ==
  \/ Steps
  \/ \E v \in VoterIds : IssueGateE1(v)
  \/ \E p \in Procs, v \in VoterIds, t \in TokenIdArgs : SubmitBeginRace(p, v, t)
  \/ \E p \in Procs : SubmitStorageAbort(p)
  \/ Tick

SpecAbort == InitRace /\ [][NextAbort]_vars

\* the steps of submit p, each of them one answer of the store
SubmitSteps(p) ==
  \/ SubmitValidate(p)
  \/ SubmitMarkToken(p)
  \/ SubmitInsertVote(p)
  \/ SubmitMarkVoter(p)
  \/ SubmitCommit(p)

\* SpecLive: concurrent well-formed submits against a store that answers
\* every operation of every submit, and may answer with a failure
NextLive ==
  \/ Steps
  \/ \E v \in VoterIds : IssueGateE1(v)
  \/ \E p \in Procs, v \in VoterIds, t \in TokenIdArgs : SubmitBeginRace(p, v, t)
  \/ \E p \in Procs : SubmitStorageAbort(p)

SpecLive ==
  /\ InitRace
  /\ [][NextLive]_vars
  /\ \A p \in Procs : WF_vars(SubmitSteps(p))

\* a well-formed submit, started while no other request is being served,
\* whose credential carries the hasVoted value of an earlier login
SubmitAs(p, v, t, hv) ==
  /\ Quiet
  /\ SubmitBeginAs(p, v, t, "c1", "e1", NoNonce, hv)

\* SpecCred: issue requests and submits served one at a time, each submit
\* with a fresh or a stale credential
NextCred ==
  \/ Steps
  \/ \E v \in VoterIds : IssueGateAlone(v)
  \/ \E p \in Procs, v \in VoterIds, t \in TokenIdArgs, hv \in BOOLEAN :
        SubmitAs(p, v, t, hv)

SpecCred == Init /\ [][NextCred]_vars

\* a cap on the sendOtp requests per phone in the registration
\* specification
MaxSends == 2

\* no registration is between two of its steps
RegQuiet == \A r \in AuthCalls : regs[r].pc \in {"idle", "done"}

\* a sendOtp request for a phone, served while no other request is
\* in flight; its code is any draw
sendOtpReg(phone) ==
  /\ phone # ""
  /\ AuthQuiet /\ RegQuiet
  /\ hashPhone(phone) \in DOMAIN otp_attempts =>
        otp_attempts[hashPhone(phone)].count < MaxSends
  /\ sendOtpRead(1, phone)

\* a registration request that arrives while no sendOtp is in flight; the
\* second one arrives while the first is being served
registerArrives(r, v, phone, code) ==
  /\ AuthQuiet
  /\ IF r = 1 THEN RegQuiet ELSE regs[r - 1].pc \notin {"idle", "done"}
  /\ registerVerifyOtp(r, v, phone, code)

\* the clock in steps of the lifetime of a code, up to MaxRegTicks steps
MaxRegTicks == 2

TickReg ==
  /\ now + OTP_TTL_MS <= MaxRegTicks * OTP_TTL_MS
  /\ TickBy(OTP_TTL_MS)

\* SpecReg: sendOtp requests for two phones, registrations of which two
\* may run concurrently, and the clock
NextReg ==
  \/ sendOtpReg("p1") \/ sendOtpReg("p2")
  \/ sendOtpWrite(1)
  \/ \E code \in OtpCodes : sendOtpSendCode(1, code)
  \/ \E r \in AuthCalls, v \in VoterIds, phone \in PhoneArgs \ {""},
        code \in CodeArgs : registerArrives(r, v, phone, code)
  \/ registerArrives(1, "v2", "", "111111")
  \/ \E r \in AuthCalls : registerFindVoter(r)
  \/ \E r \in AuthCalls : registerInsert(r)
  \/ TickReg

\* v1 is registered, v2 is not
InitReg ==
  /\ Init
  /\ DOMAIN voters = {"v1"}

SpecReg == InitReg /\ [][NextReg]_vars

====
